---- MODULE Spec2Model ----
(***************************************************************************)
(* A model of the crawl orchestration engine of jowt/crawler: the frontier *)
(* queue (CrawlQueue), the failure tracker, the statistics aggregator, the *)
(* URL normalizer and host guard, the fetch-with-retry wrapper, and the    *)
(* CrawlerEngine that drains the queue through a p-limit promise pool.     *)
(***************************************************************************)
EXTENDS Integers, Sequences, FiniteSets, TLC

VARIABLES
    options,        \* CrawlOptions: [concurrency, maxPages] (maxPages = 0: unset)
    world,          \* the network: [site, redirects, codes]
    queue,          \* CrawlQueue: [queue, head, seen]
    failures,       \* FailureTracker: [log, index]
    stats,          \* CrawlStats
    tasks,          \* every admitted task, in admission order: [item, st, ...]
    activeCount,    \* CrawlerEngine.activeCount
    processedPages, \* CrawlerEngine.processedPages
    runningCount,   \* CrawlerEngine.runningCount
    cancelled,      \* CrawlerEngine.cancelled
    pc,             \* position of run(): "init", "running", "done", "crashed"
    pages,          \* PageResults handed to handlers.onPage, in order
    summaries,      \* CrawlSummaries handed to onComplete / writeSummary
    accepted,       \* enqueueIfNew calls that returned true: [from, url]
    faults,         \* how often the network has deviated from the site so far
    observed        \* the last call made on a component driven on its own

vars == <<options, world, queue, failures, stats, tasks, activeCount,
          processedPages, runningCount, cancelled, pc, pages, summaries,
          accepted, faults, observed>>

\* ------------------------------------------------------------------ bounds
MaxConcurrency == 2
MaxPagesCap == 2
\* The network deviates from the site (error, redirect, no HTML, broken HTML)
\* at most MaxFaults times in one crawl.
MaxFaults == 2

\* ------------------------------------------------------- program constants
MAX_ADDITIONAL_ATTEMPTS == 1
DEFAULT_MAX_RETRIES == 1
COMPACT_THRESHOLD == 32

\* ------------------------------------------------------------------- URLs
\* const x = v; ... F(x): v is evaluated once, whatever use F makes of x.
Const(v, F(_)) == CHOOSE y \in {F(x) : x \in {v}} : TRUE

\* A URL is a record; path is the sequence of the characters of the pathname.
\* scheme "" marks a relative (path-absolute) reference, resolved against the
\* base.  NullUrl stands for normalizeUrl's null.
NullUrl == [scheme |-> "null", host |-> "", port |-> "", path |-> <<>>, frag |-> ""]

Url(s, h, p, path, f) == [scheme |-> s, host |-> h, port |-> p, path |-> path, frag |-> f]

toLowerCase(h) ==
    CASE h = "A" -> "a"
      [] h = "B" -> "b"
      [] h = "HTTP" -> "http"
      [] h = "HTTPS" -> "https"
      [] OTHER -> h

DEFAULT_PORT_MAP(scheme) ==
    CASE scheme = "http" -> "80"
      [] scheme = "https" -> "443"
      [] OTHER -> ""

\* A relative reference takes scheme, host and port from the base.
ResolveUrl(raw, base) ==
    IF raw.scheme = ""
    THEN [raw EXCEPT !.scheme = base.scheme, !.host = base.host, !.port = base.port]
    ELSE raw

\* The URL parser lower-cases the scheme and the host and drops the default
\* port of the scheme.
SerializeUrl(abs) ==
    [abs EXCEPT !.scheme = toLowerCase(abs.scheme),
                !.host = toLowerCase(abs.host),
                !.port = IF abs.port = DEFAULT_PORT_MAP(toLowerCase(abs.scheme))
                         THEN ""
                         ELSE abs.port]

\* new URL(raw, base)
ParseUrl(raw, base) == Const(ResolveUrl(raw, base), LAMBDA abs : SerializeUrl(abs))

removeDefaultPort(url) ==
    IF DEFAULT_PORT_MAP(url.scheme) # "" /\ url.port = DEFAULT_PORT_MAP(url.scheme)
    THEN [url EXCEPT !.port = ""]
    ELSE url

RECURSIVE StripTrailingSlashes(_)
StripTrailingSlashes(p) ==
    IF Len(p) > 0 /\ p[Len(p)] = "/"
    THEN StripTrailingSlashes(SubSeq(p, 1, Len(p) - 1))
    ELSE p

TrimmedOrRoot(trimmed) == IF Len(trimmed) > 0 THEN trimmed ELSE <<"/">>

\* normalizePath that removes one trailing slash only.
normalizePathOneSlash(url) ==
    IF url.path = <<"/">>
    THEN url
    ELSE [url EXCEPT !.path = TrimmedOrRoot(IF @[Len(@)] = "/"
                                            THEN SubSeq(@, 1, Len(@) - 1)
                                            ELSE @)]

normalizePath(url) ==
    IF url.path = <<"/">>
    THEN url
    ELSE [url EXCEPT !.path = Const(StripTrailingSlashes(@),
                                    LAMBDA trimmed : TrimmedOrRoot(trimmed))]

\* normalizeUrl from the parsed URL on.
NormalizeParsed(url) ==
    IF url.scheme # "http" /\ url.scheme # "https"
    THEN NullUrl
    ELSE Const(Const([url EXCEPT !.scheme = toLowerCase(url.scheme),
                                 !.host = toLowerCase(url.host),
                                 !.frag = ""],
                     LAMBDA u : removeDefaultPort(u)),
               LAMBDA u : normalizePath(u))

normalizeUrl(raw, base) == Const(ParseUrl(raw, base), LAMBDA url : NormalizeParsed(url))

OrFallback(normalized, raw) == IF normalized = NullUrl THEN raw ELSE normalized

normalizeOrFallback(raw) ==
    Const(normalizeUrl(raw, raw), LAMBDA normalized : OrFallback(normalized, raw))

\* A host guard that lets every parseable URL through.
sameSubdomainAnyHost(a, b) == a # NullUrl /\ b # NullUrl

\* A guard that matches the scheme as well as the hostname.
sameSubdomainAndScheme(a, b) ==
    IF a = NullUrl \/ b = NullUrl
    THEN FALSE
    ELSE toLowerCase(a.host) = toLowerCase(b.host) /\ a.scheme = b.scheme

\* new URL(a) throws for a string that does not parse: the guard answers false.
sameSubdomain(a, b) ==
    IF a = NullUrl \/ b = NullUrl
    THEN FALSE
    ELSE toLowerCase(a.host) = toLowerCase(b.host)

\* ------------------------------------------------------------- CrawlQueue
QueueItem(url, depth, attempt) == [url |-> url, depth |-> depth, attempt |-> attempt]

markVisited(q, url) == [q EXCEPT !.seen = @ \cup {url}]

\* enqueue that also enters the URL of the item into the seen-set.
enqueueMarksSeen(q, item) ==
    [q EXCEPT !.queue = Append(@, item), !.seen = @ \cup {item.url}]

enqueue(q, item) == [q EXCEPT !.queue = Append(@, item)]

NewCrawlQueue(initialUrl) ==
    enqueue(markVisited([queue |-> <<>>, head |-> 0, seen |-> {}], initialUrl),
            QueueItem(initialUrl, 0, 0))

\* enqueueIfNew that marks the URL as seen and forgets to append it.
enqueueIfNewSeenOnly(q, url, depth) ==
    IF url \in q.seen
    THEN [q |-> q, ret |-> FALSE]
    ELSE [q |-> markVisited(q, url), ret |-> TRUE]

\* enqueueIfNew without the look-up in the seen-set.
enqueueIfNewUnchecked(q, url, depth) ==
    [q |-> enqueue(markVisited(q, url), QueueItem(url, depth, 0)), ret |-> TRUE]

\* The result carries the queue after the call and the returned boolean.
enqueueIfNew(q, url, depth) ==
    IF url \in q.seen
    THEN [q |-> q, ret |-> FALSE]
    ELSE [q |-> enqueue(markVisited(q, url), QueueItem(url, depth, 0)), ret |-> TRUE]

\* pending that forgets the head index.
pendingLength(q) == Len(q.queue)

pending(q) == Len(q.queue) - q.head

uniqueCount(q) == Cardinality(q.seen)

\* dequeue() returning undefined.
NoItem == [url |-> NullUrl, depth |-> 0, attempt |-> 0]

\* dequeue whose compaction cuts the array and keeps the head index.
dequeueKeepsHead(q) ==
    IF q.head + 1 > Len(q.queue)
    THEN [q |-> q, item |-> NoItem]
    ELSE LET next == q.queue[q.head + 1]
             h == q.head + 1
         IN IF h >= COMPACT_THRESHOLD /\ h * 2 >= Len(q.queue)
            THEN [q |-> [q EXCEPT !.queue = SubSeq(@, h + 1, Len(@)), !.head = h],
                  item |-> next]
            ELSE [q |-> [q EXCEPT !.head = h], item |-> next]

\* q.queue[q.head] is 0-based in the source, q.queue[q.head + 1] in a 1-based
\* sequence; an index past the end reads undefined.
dequeue(q) ==
    IF q.head + 1 > Len(q.queue)
    THEN [q |-> q, item |-> NoItem]
    ELSE LET next == q.queue[q.head + 1]
             h == q.head + 1
         IN IF h >= COMPACT_THRESHOLD /\ h * 2 >= Len(q.queue)
            THEN [q |-> [q EXCEPT !.queue = SubSeq(@, h + 1, Len(@)), !.head = 0],
                  item |-> next]
            ELSE [q |-> [q EXCEPT !.head = h], item |-> next]

\* The items still waiting in the frontier.
Frontier(q) == SubSeq(q.queue, q.head + 1, Len(q.queue))

\* --------------------------------------------------------- FailureTracker
\* An empty Map.
EmptyMap == [k \in {} |-> 0]

NewFailureTracker == [log |-> <<>>, index |-> EmptyMap]

createFailureEvent(item, page, reason) ==
    [url |-> page.url, depth |-> item.depth, reason |-> reason,
     attempt |-> item.attempt + 1, resolvedOnRetry |-> FALSE]

\* index is the Map<string, number[]>: a function from the URLs that have an
\* entry to their list of (1-based) log positions.
IndexGet(f, url) == IF url \in DOMAIN f.index THEN f.index[url] ELSE <<>>

\* A tracker that keeps one event per URL.
recordOncePerUrl(f, item, page, reason) ==
    IF page.url \in DOMAIN f.index
    THEN f
    ELSE [log |-> Append(f.log, createFailureEvent(item, page, reason)),
          index |-> [u \in DOMAIN f.index \cup {page.url} |->
                        IF u = page.url THEN <<Len(f.log) + 1>> ELSE f.index[u]]]

record(f, item, page, reason) ==
    LET log2 == Append(f.log, createFailureEvent(item, page, reason))
        entries == Append(IndexGet(f, page.url), Len(log2))
    IN [log |-> log2,
        index |-> [u \in DOMAIN f.index \cup {page.url} |->
                      IF u = page.url THEN entries ELSE f.index[u]]]

\* A tracker whose resolve closes the oldest open event of the URL.
resolveOldest(f, url) ==
    LET entries == IndexGet(f, url)
    IN IF Len(entries) = 0
       THEN f
       ELSE LET firstIndex == entries[1]
                rest == SubSeq(entries, 2, Len(entries))
            IN [log |-> [f.log EXCEPT ![firstIndex].resolvedOnRetry = TRUE],
                index |-> IF Len(rest) = 0
                          THEN [u \in DOMAIN f.index \ {url} |-> f.index[u]]
                          ELSE [f.index EXCEPT ![url] = rest]]

\* A tracker whose resolve leaves the log as it is.
resolveNothing(f, url) == f

resolve(f, url) ==
    LET entries == IndexGet(f, url)
    IN IF Len(entries) = 0
       THEN f
       ELSE LET lastIndex == entries[Len(entries)]
                rest == SubSeq(entries, 1, Len(entries) - 1)
            IN [log |-> [f.log EXCEPT ![lastIndex].resolvedOnRetry = TRUE],
                index |-> IF Len(rest) = 0
                          THEN [u \in DOMAIN f.index \ {url} |-> f.index[u]]
                          ELSE [f.index EXCEPT ![url] = rest]]

\* ------------------------------------------------------------- CrawlStats
Max(a, b) == IF a >= b THEN a ELSE b

initializeStats(initialQueueSize) ==
    [pagesVisited |-> 0, pagesSucceeded |-> 0, pagesFailed |-> 0, maxDepth |-> 0,
     totalLinksExtracted |-> 0, statusCounts |-> EmptyMap, actualMaxConcurrency |-> 0,
     peakQueueSize |-> initialQueueSize, duplicatesFiltered |-> 0,
     failureReasons |-> EmptyMap, retryAttempts |-> 0, retrySuccesses |-> 0,
     retryFailures |-> 0]

\* map.set(key, (map.get(key) ?? 0) + 1)
Bump(map, key) ==
    [k \in DOMAIN map \cup {key} |->
        IF k = key THEN (IF key \in DOMAIN map THEN map[key] ELSE 0) + 1 ELSE map[k]]

\* recordPageMetrics that forgets to count a failed page.
recordPageMetricsNoFailed(st, page, ok, status, failureReason) ==
    LET s1 == [st EXCEPT !.pagesVisited = @ + 1,
                         !.maxDepth = Max(@, page.depth),
                         !.totalLinksExtracted = @ + Len(page.links)]
        s2 == IF ok THEN [s1 EXCEPT !.pagesSucceeded = @ + 1] ELSE s1
    IN IF status # 0
       THEN [s2 EXCEPT !.statusCounts = Bump(@, status)]
       ELSE s2

\* status 0 stands for null, reason "" for undefined.
recordPageMetrics(st, page, ok, status, failureReason) ==
    LET s1 == [st EXCEPT !.pagesVisited = @ + 1,
                         !.maxDepth = Max(@, page.depth),
                         !.totalLinksExtracted = @ + Len(page.links)]
        s2 == IF ok
              THEN [s1 EXCEPT !.pagesSucceeded = @ + 1]
              ELSE [s1 EXCEPT !.pagesFailed = @ + 1,
                              !.failureReasons =
                                  IF failureReason # "" THEN Bump(@, failureReason) ELSE @]
    IN IF status # 0
       THEN [s2 EXCEPT !.statusCounts = Bump(@, status)]
       ELSE s2

\* ----------------------------------------------------------------- errors
\* A thrown value is a CrawlerError (crawler = TRUE) with its kind and
\* severity, or any other value.  "" stands for undefined.
ErrorKinds == {"fetch", "parse", "normalize", "config", "output", "internal"}

ErrorSeverities == {"recoverable", "fatal"}

OtherValue(message) ==
    [crawler |-> FALSE, kind |-> "", severity |-> "", message |-> message]

\* new CrawlerError({message, kind, severity = 'recoverable'})
CrawlerError(message, kind, severity) ==
    [crawler |-> TRUE, kind |-> kind,
     severity |-> IF severity = "" THEN "recoverable" ELSE severity,
     message |-> message]

isCrawlerError(value) == value.crawler

\* ensureCrawlerError whose fallback severity is recoverable.
ensureCrawlerErrorRecoverable(error, fallbackKind, fallbackSeverity) ==
    IF isCrawlerError(error)
    THEN error
    ELSE CrawlerError(error.message, fallbackKind, fallbackSeverity)

ensureCrawlerError(error, fallbackKind, fallbackSeverity) ==
    IF isCrawlerError(error)
    THEN error
    ELSE CrawlerError(error.message, fallbackKind,
                      IF fallbackSeverity = "" THEN "fatal" ELSE fallbackSeverity)

\* ErrorHandlingOptions; throwOnFatal is "", "true" or "false".
ErrorHandlingOptions(defaultKind, defaultSeverity, throwOnFatal) ==
    [defaultKind |-> defaultKind, defaultSeverity |-> defaultSeverity,
     throwOnFatal |-> throwOnFatal]

\* reportCrawlerError once ensureCrawlerError has returned crawlerError: the
\* log level, and whether the error is thrown or returned.
Reported(crawlerError, opts) ==
    [error |-> crawlerError,
     level |-> IF crawlerError.severity = "fatal" THEN "error" ELSE "warn",
     threw |-> crawlerError.severity = "fatal" /\ opts.throwOnFatal # "false"]

reportCrawlerError(error, opts) ==
    Reported(ensureCrawlerError(error,
                                IF opts.defaultKind = "" THEN "internal" ELSE opts.defaultKind,
                                opts.defaultSeverity),
             opts)

\* ------------------------------------------------------ fetchPageWithRetry
\* What one fetchPage call can do: return a Response (t = "resp") or throw a
\* fetch error carrying an error code (t = "throw"; code "ABORT" is the
\* deadline expiry, which carries no code).
Resp(url, ok, status, html, links, parseThrows) ==
    [t |-> "resp", url |-> url, ok |-> ok, status |-> status, html |-> html,
     links |-> links, parseThrows |-> parseThrows, code |-> ""]

Throw(code) ==
    [t |-> "throw", url |-> NullUrl, ok |-> FALSE, status |-> 0, html |-> FALSE,
     links |-> <<>>, parseThrows |-> FALSE, code |-> code]

RETRYABLE_ERROR_CODES == {"ECONNRESET", "ETIMEDOUT", "EAI_AGAIN"}

\* A test that takes every thrown fetch error for a transient one.
isRetryableFetchErrorAny(r) == r.t = "throw"

isRetryableFetchError(r) == r.code \in RETRYABLE_ERROR_CODES

\* `HTTP ${response.status}`
HttpReason(status) ==
    CASE status = 404 -> "HTTP 404"
      [] status = 500 -> "HTTP 500"
      [] OTHER -> "HTTP"

\* rs[attempt + 1] is what the fetchPage call of that attempt does.  The
\* outcome also says how many requests were issued.
RECURSIVE FetchLoop(_, _, _)
FetchLoop(url, rs, attempt) ==
    LET r == rs[attempt + 1]
    IN IF r.t = "resp"
       THEN IF ~r.ok
            THEN [ok |-> FALSE, url |-> r.url, status |-> r.status, html |-> FALSE,
                  links |-> <<>>, parseThrows |-> FALSE,
                  failureReason |-> HttpReason(r.status), hasError |-> FALSE,
                  requests |-> attempt + 1]
            ELSE [ok |-> TRUE, url |-> r.url, status |-> r.status, html |-> r.html,
                  links |-> IF r.html THEN r.links ELSE <<>>,
                  parseThrows |-> r.html /\ r.parseThrows,
                  failureReason |-> "", hasError |-> FALSE,
                  requests |-> attempt + 1]
       ELSE IF attempt = DEFAULT_MAX_RETRIES \/ ~isRetryableFetchError(r)
            THEN [ok |-> FALSE, url |-> url, status |-> 0, html |-> FALSE,
                  links |-> <<>>, parseThrows |-> FALSE,
                  failureReason |-> r.code, hasError |-> TRUE,
                  requests |-> attempt + 1]
            ELSE FetchLoop(url, rs, attempt + 1)

fetchPageWithRetry(url, rs) == FetchLoop(url, rs, 0)

\* The outcome of a task whose fetchPageWithRetry has not returned yet.
NoOutcome ==
    [ok |-> FALSE, url |-> NullUrl, status |-> 0, html |-> FALSE, links |-> <<>>,
     parseThrows |-> FALSE, failureReason |-> "", hasError |-> FALSE, requests |-> 0]

\* ------------------------------------------------------------ the engine
\* The part of the engine state that handleItem works on.
Eng(q, st, f, pg, acc) ==
    [queue |-> q, stats |-> st, failures |-> f, pages |-> pg, accepted |-> acc]

PageResult(url, depth, status, links, error) ==
    [url |-> url, depth |-> depth, status |-> status, links |-> links, error |-> error]

enqueueRetry(e, item) ==
    LET q == enqueue(e.queue, item)
    IN [e EXCEPT !.queue = q,
                 !.stats.peakQueueSize = Max(@, pending(q))]

\* The retry decision of recordFailure, after the failure was recorded in e1.
RetryPolicy(e1, item, page, allowRetry, maxAdditionalAttempts) ==
    IF ~allowRetry
    THEN e1
    ELSE IF item.attempt < maxAdditionalAttempts
         THEN enqueueRetry([e1 EXCEPT !.stats.retryAttempts = @ + 1],
                           QueueItem(page.url, item.depth, item.attempt + 1))
         ELSE [e1 EXCEPT !.stats.retryFailures = @ + 1]

\* A retry decision that compares the attempt with <= .
RetryPolicyOffByOne(e1, item, page, allowRetry, maxAdditionalAttempts) ==
    IF ~allowRetry
    THEN e1
    ELSE IF item.attempt <= maxAdditionalAttempts
         THEN enqueueRetry([e1 EXCEPT !.stats.retryAttempts = @ + 1],
                           QueueItem(page.url, item.depth, item.attempt + 1))
         ELSE [e1 EXCEPT !.stats.retryFailures = @ + 1]

\* A retry decision that forgets to count the exhausted retry.
RetryPolicyNoExhausted(e1, item, page, allowRetry, maxAdditionalAttempts) ==
    IF ~allowRetry
    THEN e1
    ELSE IF item.attempt < maxAdditionalAttempts
         THEN enqueueRetry([e1 EXCEPT !.stats.retryAttempts = @ + 1],
                           QueueItem(page.url, item.depth, item.attempt + 1))
         ELSE e1

\* recordFailure that compares the attempt with <= : one retry too many.
recordFailureOffByOne(e, item, page, reason, allowRetry, maxAdditionalAttempts) ==
    RetryPolicyOffByOne([e EXCEPT !.failures = record(@, item, page, reason)],
                        item, page, allowRetry, maxAdditionalAttempts)

\* recordFailure that forgets to count the exhausted retry.
recordFailureNoExhausted(e, item, page, reason, allowRetry, maxAdditionalAttempts) ==
    RetryPolicyNoExhausted([e EXCEPT !.failures = record(@, item, page, reason)],
                           item, page, allowRetry, maxAdditionalAttempts)

recordFailure(e, item, page, reason, allowRetry, maxAdditionalAttempts) ==
    RetryPolicy([e EXCEPT !.failures = record(@, item, page, reason)],
                item, page, allowRetry, maxAdditionalAttempts)

\* Set.add keeps the first insertion of a value.
SetAdd(seq, x) == IF \E i \in 1..Len(seq) : seq[i] = x THEN seq ELSE Append(seq, x)

\* A round that does not count the link that enqueueIfNew turns down.
ParseAcceptNoCount(r, res, normalized, normalizedVisited) ==
    [e |-> IF res.ret
           THEN [r.e EXCEPT !.queue = res.q,
                            !.stats.peakQueueSize = Max(@, pending(res.q)),
                            !.accepted = Append(@, [from |-> normalizedVisited,
                                                    url |-> normalized])]
           ELSE r.e,
     links |-> SetAdd(r.links, normalized)]

\* The end of one round of the loop of parseAndEnqueue: the link is in-host,
\* res is what enqueueIfNew returned for it.  r is [e, links].
ParseAccept(r, res, normalized, normalizedVisited) ==
    [e |-> IF res.ret
           THEN [r.e EXCEPT !.queue = res.q,
                            !.stats.peakQueueSize = Max(@, pending(res.q)),
                            !.accepted = Append(@, [from |-> normalizedVisited,
                                                    url |-> normalized])]
           ELSE [r.e EXCEPT !.stats.duplicatesFiltered = @ + 1],
     links |-> SetAdd(r.links, normalized)]

\* One round of the loop, from the normalized link on.
ParseStep(r, normalized, normalizedVisited, depth) ==
    IF normalized = NullUrl \/ ~sameSubdomain(normalizedVisited, normalized)
    THEN r
    ELSE ParseAccept(r, enqueueIfNew(r.e.queue, normalized, depth + 1),
                     normalized, normalizedVisited)

\* The loop of parseAndEnqueue over rawLinks[i..].
RECURSIVE ParseLoop(_, _, _, _, _, _)
ParseLoop(r, rawLinks, i, baseUrl, normalizedVisited, depth) ==
    IF i > Len(rawLinks)
    THEN r
    ELSE Const(Const(normalizeUrl(rawLinks[i], baseUrl),
                     LAMBDA normalized : ParseStep(r, normalized, normalizedVisited, depth)),
               LAMBDA next : ParseLoop(next, rawLinks, i + 1, baseUrl,
                                       normalizedVisited, depth))

ParseOk(r) == [e |-> r.e, links |-> r.links, error |-> FALSE]

\* parseLinks throws before the first link is looked at; the catch returns
\* no links and the error.
parseAndEnqueue(e, outcome, baseUrl, normalizedVisited, depth) ==
    IF outcome.parseThrows
    THEN [e |-> e, links |-> <<>>, error |-> TRUE]
    ELSE Const(Const([e |-> e, links |-> <<>>],
                     LAMBDA r : ParseLoop(r, outcome.links, 1, baseUrl,
                                          normalizedVisited, depth)),
               LAMBDA r : ParseOk(r))

dispatchPage(e, pageResult) == [e EXCEPT !.pages = Append(@, pageResult)]

\* recordPageMetrics(...) followed by dispatchPage(pageResult).
EmitPage(e, page, ok, status, reason) ==
    dispatchPage([e EXCEPT !.stats = recordPageMetrics(@, page, ok, status, reason)],
                 page)

RequestFailed(failureReason) ==
    IF failureReason = "" THEN "Request failed" ELSE failureReason

handleFailedOutcome(e, item, pageResult, failureReason, status) ==
    EmitPage(recordFailure(e, item,
                           [pageResult EXCEPT !.error = RequestFailed(failureReason)],
                           RequestFailed(failureReason), TRUE, MAX_ADDITIONAL_ATTEMPTS),
             [pageResult EXCEPT !.error = RequestFailed(failureReason)],
             FALSE, status, RequestFailed(failureReason))

ParseFailureMessage == "Failed to parse links from HTML"

\* handleParseFailure that emits the page without recording its metrics.
handleParseFailureNoMetrics(e, item, pageResult, reason, status) ==
    dispatchPage(recordFailure(e, item, [pageResult EXCEPT !.error = reason], reason,
                               FALSE, MAX_ADDITIONAL_ATTEMPTS),
                 [pageResult EXCEPT !.error = reason])

handleParseFailure(e, item, pageResult, reason, status) ==
    EmitPage(recordFailure(e, item, [pageResult EXCEPT !.error = reason], reason,
                           FALSE, MAX_ADDITIONAL_ATTEMPTS),
             [pageResult EXCEPT !.error = reason],
             FALSE, status, reason)

\* handleItem after parseAndEnqueue has returned parseResult.
HandleParsed(parseResult, item, outcome, pageResult) ==
    IF parseResult.error
    THEN handleParseFailure(parseResult.e, item, pageResult, ParseFailureMessage,
                            outcome.status)
    ELSE EmitPage(parseResult.e, [pageResult EXCEPT !.links = parseResult.links],
                  TRUE, outcome.status, "")

\* handleItem for an outcome that is ok, after the retry bookkeeping.
HandleSuccess(e, item, outcome, pageBase, pageResult) ==
    IF ~outcome.html
    THEN EmitPage(e, pageResult, TRUE, outcome.status, "")
    ELSE Const(parseAndEnqueue(e, outcome, pageBase, pageResult.url, item.depth),
               LAMBDA parseResult : HandleParsed(parseResult, item, outcome, pageResult))

RetrySucceeded(e, item, pageResult) ==
    IF item.attempt > 0
    THEN [e EXCEPT !.stats.retrySuccesses = @ + 1,
                   !.failures = resolve(@, pageResult.url)]
    ELSE e

\* handleItem once the visited URL is marked and pageResult is built.
HandleOutcome(e, item, outcome, pageBase, pageResult) ==
    IF ~outcome.ok
    THEN handleFailedOutcome(e, item, pageResult, outcome.failureReason, outcome.status)
    ELSE HandleSuccess(RetrySucceeded(e, item, pageResult), item, outcome, pageBase,
                       pageResult)

HandleVisited(e, item, outcome, pageBase, normalizedVisited) ==
    HandleOutcome([e EXCEPT !.queue = markVisited(@, normalizedVisited)],
                  item, outcome, pageBase,
                  PageResult(normalizedVisited, item.depth, outcome.status, <<>>, ""))

\* handleItem from the point where fetchPageWithRetry has returned outcome.
handleItem(e, item, outcome) ==
    Const(normalizeOrFallback(outcome.url),
          LAMBDA normalizedVisited :
              HandleVisited(e, item, outcome, outcome.url, normalizedVisited))

\* handlers.onPage has returned: nothing was thrown.
NoThrow == [crawler |-> FALSE, kind |-> "", severity |-> "none", message |-> ""]

\* reportCrawlerError called with its default options: a fatal error is
\* thrown.
ReportThrowsByDefault(error) ==
    IF reportCrawlerError(error, ErrorHandlingOptions("", "", "")).threw
    THEN reportCrawlerError(error, ErrorHandlingOptions("", "", "")).error
    ELSE NoThrow

\* reportCrawlerError(error, context, { throwOnFatal: false }), as
\* handleFailedOutcome and the catch of parseAndEnqueue call it: what the
\* call throws.
ReportThrows(error) ==
    IF reportCrawlerError(error, ErrorHandlingOptions("", "", "false")).threw
    THEN reportCrawlerError(error, ErrorHandlingOptions("", "", "false")).error
    ELSE NoThrow

\* What handleItem throws on its way to onPage: the error of a failed
\* outcome is the fetch error that fetchPage made with createFetchError, and
\* what parseLinks threw is any value.
ItemThrows(outcome) ==
    IF ~outcome.ok /\ outcome.hasError
    THEN ReportThrows(ensureCrawlerError(
                          CrawlerError(outcome.failureReason, "fetch", ""), "fetch", ""))
    ELSE IF outcome.ok /\ outcome.parseThrows
         THEN ReportThrows(OtherValue(ParseFailureMessage))
         ELSE NoThrow

\* The value that leaves handleItem: its own throw, or else what onPage threw.
Escaped(outcome, thrown) ==
    IF ItemThrows(outcome) # NoThrow THEN ItemThrows(outcome) ELSE thrown

\* The .catch callback of the task's promise, for the value that the limited
\* function threw: the error is wrapped and reported without throwing, and
\* thrown again when it is fatal.  TRUE when the task's promise rejects.
TaskCatch(thrown) ==
    /\ thrown # NoThrow
    /\ ~reportCrawlerError(ensureCrawlerError(thrown, "internal", "fatal"),
                           ErrorHandlingOptions("", "", "false")).threw
    /\ ensureCrawlerError(thrown, "internal", "fatal").severity = "fatal"

\* schedule(item): the synchronous part, which counts the item as active and
\* hands its task to the limiter.  A task remembers what its fetchPage calls
\* did (rs), what fetchPageWithRetry returned (outcome), what onPage threw
\* (thrown), whether its promise rejects (rejected) and whether run() has
\* passed it to Promise.allSettled (awaited).
schedule(r, item) ==
    [r EXCEPT !.activeCount = @ + 1,
              !.tasks = Append(@, [item |-> item, st |-> "queued", rs |-> <<>>,
                                   outcome |-> NoOutcome, thrown |-> NoThrow,
                                   rejected |-> FALSE, awaited |-> FALSE])]

\* this.schedule(next), for the item next that dequeue() returned.
Admit(r, d) == schedule([r EXCEPT !.queue = d.q], d.item)

\* runQueue that tests the cap with > : it admits one item too many.
RECURSIVE runQueueOverCap(_, _, _, _)
runQueueOverCap(r, isCancelled, processed, maxPages) ==
    IF ~isCancelled /\ pending(r.queue) > 0
    THEN IF maxPages # 0 /\ processed + r.activeCount > maxPages
         THEN r
         ELSE Const(dequeue(r.queue),
                    LAMBDA d : IF d.item = NoItem
                               THEN r
                               ELSE runQueueOverCap(Admit(r, d), isCancelled,
                                                    processed, maxPages))
    ELSE r

\* runQueue that admits one item per call.
runQueueOnce(r, isCancelled, processed, maxPages) ==
    IF ~isCancelled /\ pending(r.queue) > 0
          /\ ~(maxPages # 0 /\ processed + r.activeCount >= maxPages)
    THEN Admit(r, dequeue(r.queue))
    ELSE r

\* runQueue(): r is [queue, tasks, activeCount]; cancelled, processedPages and
\* maxPages do not change while the loop runs.
RECURSIVE runQueue(_, _, _, _)
runQueue(r, isCancelled, processed, maxPages) ==
    IF ~isCancelled /\ pending(r.queue) > 0
    THEN IF maxPages # 0 /\ processed + r.activeCount >= maxPages
         THEN r
         ELSE Const(dequeue(r.queue),
                    LAMBDA d : IF d.item = NoItem
                               THEN r
                               ELSE runQueue(Admit(r, d), isCancelled, processed,
                                             maxPages))
    ELSE r

buildCrawlSummary(st, q, f, isCancelled) ==
    [pagesVisited |-> st.pagesVisited, pagesSucceeded |-> st.pagesSucceeded,
     pagesFailed |-> st.pagesFailed, uniqueUrlsDiscovered |-> uniqueCount(q),
     maxDepth |-> st.maxDepth, totalLinksExtracted |-> st.totalLinksExtracted,
     statusCounts |-> st.statusCounts, failureReasons |-> st.failureReasons,
     actualMaxConcurrency |-> st.actualMaxConcurrency,
     peakQueueSize |-> st.peakQueueSize, duplicatesFiltered |-> st.duplicatesFiltered,
     cancelled |-> isCancelled, retryAttempts |-> st.retryAttempts,
     retrySuccesses |-> st.retrySuccesses, retryFailures |-> st.retryFailures,
     failureLog |-> f.log]

\* A limiter created one slot too wide.
limiterConcurrencyPlusOne(opts) == opts.concurrency + 1

\* p-limit is created with the configured concurrency.
limiterConcurrency(opts) == opts.concurrency

\* The limiter starts a waiting task only while fewer than its concurrency
\* are running; a task holds its slot until its function has returned.
Running(ts) == {j \in 1..Len(ts) : ts[j].st = "running"}

\* A set of active promises from which no .finally callback deletes its task.
activePromisesNeverDeleted(ts) == 1..Len(ts)

activePromises(ts) == {j \in 1..Len(ts) : ts[j].st # "done"}

\* Promise.allSettled([...this.activePromises]): run() waits for every
\* active promise, and a rejection of one of them is handled.
allSettled(ts) ==
    [j \in 1..Len(ts) |-> IF j \in activePromises(ts)
                          THEN [ts[j] EXCEPT !.awaited = TRUE]
                          ELSE ts[j]]

\* The loop of run(): when every promise it waits for has settled and
\* promises are active, it waits for those.
WaitLoop(ts) ==
    IF \A j \in 1..Len(ts) : ts[j].awaited => ts[j].st = "done"
    THEN allSettled(ts)
    ELSE ts

\* ------------------------------------------------------------ the network
Root == <<"/">>
PathX == <<"/", "x">>
PathY == <<"/", "y">>
PathYSlash == <<"/", "y", "/">>

\* What one fetchPage(url) call can end with: a Response from url itself or
\* from a URL it redirects to, carrying the HTML the site holds there (with
\* parseLinks working or throwing), something that is no HTML, or an error
\* status; or a thrown fetch error.
RespUrls(url) ==
    {url} \cup (IF url \in DOMAIN world.redirects THEN world.redirects[url] ELSE {})

SiteHrefs(n) == IF n \in DOMAIN world.site THEN world.site[n] ELSE <<>>

Hrefs(u) == Const(normalizeOrFallback(u), LAMBDA n : SiteHrefs(n))

Responses(url) ==
    {Resp(u, TRUE, 200, TRUE, Hrefs(u), FALSE) : u \in RespUrls(url)}
       \cup {Resp(u, TRUE, 200, TRUE, <<>>, TRUE) : u \in RespUrls(url)}
       \cup {Resp(u, TRUE, 200, FALSE, <<>>, FALSE) : u \in RespUrls(url)}
       \cup {Resp(u, FALSE, 500, FALSE, <<>>, FALSE) : u \in RespUrls(url)}
       \cup {Throw(c) : c \in world.codes}

\* A fetchPage result is nominal when it is the site's HTML page of the URL
\* that was asked for; Deviations counts the other ones among the requests
\* that fetchPageWithRetry(url, rs) issues.
Nominal(url, r) == r.t = "resp" /\ r.ok /\ r.html /\ ~r.parseThrows /\ r.url = url

Deviations(url, rs, requests) ==
    Cardinality({k \in 1..requests : ~Nominal(url, rs[k])})

\* ---------------------------------------------------------------- actions
StartUrl == Url("http", "a", "", Root, "")

Http(h, path) == Url("http", h, "", path, "")

RelX == Url("", "", "", PathX, "")
RelYSlash == Url("", "", "", PathYSlash, "")
AbsTop == Url("http", "A", "80", Root, "top")

\* A site on host a whose page /y may redirect to host b or to the page /x.
\* budget is the number of fetchPage results that may deviate from the site,
\* throws what a handlers.onPage call may throw.
World ==
    [site |-> (Http("a", Root) :> <<RelX, RelYSlash, AbsTop>>)
              @@ (Http("a", PathX) :> <<AbsTop, RelYSlash>>)
              @@ (Http("a", PathY) :> <<RelX>>)
              @@ (Http("b", Root) :> <<RelX, AbsTop>>),
     redirects |-> (Http("a", PathY) :> {Http("b", Root), Http("a", PathX)}),
     codes |-> {"ECONNRESET", "ABORT"},
     budget |-> MaxFaults,
     throws |-> {NoThrow}]

\* No component has been called on its own.
NoCall == [op |-> "none"]

\* The state after construction, but for the position of run() and the call
\* last made.
InitComponents(opts, w) ==
    /\ options = opts
    /\ world = w
    /\ queue = NewCrawlQueue(opts.normalizedStart)
    /\ failures = NewFailureTracker
    /\ stats = initializeStats(pending(NewCrawlQueue(opts.normalizedStart)))
    /\ tasks = <<>>
    /\ activeCount = 0
    /\ processedPages = 0
    /\ runningCount = 0
    /\ cancelled = FALSE
    /\ pages = <<>>
    /\ summaries = <<>>
    /\ accepted = <<>>
    /\ faults = 0

InitEngine(opts, w) ==
    /\ InitComponents(opts, w)
    /\ pc = "init"
    /\ observed = NoCall

Init ==
    \E c \in 1..MaxConcurrency, m \in 0..MaxPagesCap :
        InitEngine([concurrency |-> c, maxPages |-> m,
                    normalizedStart |-> normalizeUrl(StartUrl, StartUrl)], World)

\* The engine takes over what runQueue has done.
Admitted(r) ==
    /\ queue' = r.queue
    /\ tasks' = r.tasks
    /\ activeCount' = r.activeCount

\* run() up to its first await: the signal handler is attached, runQueue
\* admits what the frontier holds and run() waits for the admitted tasks.
Run ==
    /\ pc = "init"
    /\ \E r \in {runQueue([queue |-> queue, tasks |-> tasks, activeCount |-> activeCount],
                          cancelled, processedPages, options.maxPages)} :
           Admitted([r EXCEPT !.tasks = allSettled(@)])
    /\ pc' = "running"
    /\ UNCHANGED <<options, world, failures, stats, processedPages, runningCount,
                   cancelled, pages, summaries, accepted, faults, observed>>

\* A limiter that starts no waiting task once the cancellation flag is set.
LimiterStartUnlessCancelled(i) ==
    /\ pc # "crashed"
    /\ ~cancelled
    /\ tasks[i].st = "queued"
    /\ \A j \in 1..(i - 1) : tasks[j].st # "queued"
    /\ Cardinality(Running(tasks)) < limiterConcurrency(options)
    /\ tasks' = [tasks EXCEPT ![i].st = "running"]
    /\ runningCount' = runningCount + 1
    /\ stats' = [stats EXCEPT !.actualMaxConcurrency = Max(@, runningCount + 1)]
    /\ UNCHANGED <<options, world, queue, failures, activeCount, processedPages,
                   cancelled, pc, pages, summaries, accepted, faults, observed>>

\* The limiter runs the function of the task that waits longest: it counts
\* itself as running and calls fetchPageWithRetry.
LimiterStart(i) ==
    /\ pc # "crashed"
    /\ tasks[i].st = "queued"
    /\ \A j \in 1..(i - 1) : tasks[j].st # "queued"
    /\ Cardinality(Running(tasks)) < limiterConcurrency(options)
    /\ tasks' = [tasks EXCEPT ![i].st = "running"]
    /\ runningCount' = runningCount + 1
    /\ stats' = [stats EXCEPT !.actualMaxConcurrency = Max(@, runningCount + 1)]
    /\ UNCHANGED <<options, world, queue, failures, activeCount, processedPages,
                   cancelled, pc, pages, summaries, accepted, faults, observed>>

\* The engine state after handleItem.
Handled(e) ==
    /\ queue' = e.queue
    /\ stats' = e.stats
    /\ failures' = e.failures
    /\ pages' = e.pages
    /\ accepted' = e.accepted

\* The network has deviated n more times, within its budget.
Deviated(n) ==
    /\ faults + n <= world.budget
    /\ faults' = faults + n

\* Task i got outcome from the fetchPage results rs, and the onPage call at
\* the end of handleItem threw thrown.  Both reportCrawlerError calls on the
\* way are made with throwOnFatal: false, so handleItem reaches onPage.
Fetched(i, rs, outcome, thrown) ==
    /\ Deviated(Deviations(tasks[i].item.url, rs, outcome.requests))
    /\ tasks' = [tasks EXCEPT ![i].st = "settled",
                              ![i].rs = SubSeq(rs, 1, outcome.requests),
                              ![i].outcome = outcome,
                              ![i].thrown = Escaped(outcome, thrown),
                              ![i].rejected = TaskCatch(Escaped(outcome, thrown))]
    /\ \E e \in {handleItem(Eng(queue, stats, failures, pages, accepted),
                             tasks[i].item, outcome)} :
           Handled(e)

\* fetchPageWithRetry returns and the rest of handleItem runs; the finally of
\* the limited function gives the running count back, and the .catch
\* callback decides whether the task's promise rejects.
TaskComplete(i, rs, thrown) ==
    /\ pc # "crashed"
    /\ tasks[i].st = "running"
    /\ \E outcome \in {fetchPageWithRetry(tasks[i].item.url, rs)} :
           Fetched(i, rs, outcome, thrown)
    /\ runningCount' = runningCount - 1
    /\ UNCHANGED <<options, world, activeCount, processedPages, cancelled, pc, summaries,
                   observed>>

\* A .finally callback that does not pump the queue.
RunQueueNever(r, isCancelled, processed, maxPages) == r

\* A .finally callback that calls runQueue as if no SIGINT had been seen.
RunQueueAlways(r, isCancelled, processed, maxPages) ==
    runQueue(r, FALSE, processed, maxPages)

\* The .finally callback of the task's promise: if (!this.cancelled) runQueue().
RunQueueUnlessCancelled(r, isCancelled, processed, maxPages) ==
    IF ~isCancelled THEN runQueue(r, isCancelled, processed, maxPages) ELSE r

\* The task's promise settles after the callback.  A rejection that run()
\* does not wait for is an unhandled one: the runtime ends the process or
\* only warns, as it is set up.
TaskFinally(i) ==
    /\ pc # "crashed"
    /\ tasks[i].st = "settled"
    /\ processedPages' = processedPages + 1
    /\ \E r \in {RunQueueUnlessCancelled(
                      [queue |-> queue,
                       tasks |-> [tasks EXCEPT ![i].st = "done"],
                       activeCount |-> activeCount - 1],
                      cancelled, processedPages + 1, options.maxPages)} :
           Admitted([r EXCEPT !.tasks = WaitLoop(@)])
    /\ \E exits \in {FALSE, tasks[i].rejected /\ ~tasks[i].awaited} :
           pc' = IF exits THEN "crashed" ELSE pc
    /\ UNCHANGED <<options, world, failures, stats, runningCount, cancelled,
                   pages, summaries, accepted, faults, observed>>

\* SIGINT while run() is in progress.
Cancel ==
    /\ pc = "running"
    /\ ~cancelled
    /\ cancelled' = TRUE
    /\ UNCHANGED <<options, world, queue, failures, stats, tasks, activeCount,
                   processedPages, runningCount, pc, pages, summaries, accepted, faults, observed>>

\* run() awaiting the active promises once, without the loop: it returns
\* when the promises of the first admission round have settled.
RunMayReturnAfterFirstRound(ts) == Len(ts) > 0 /\ ts[1].st = "done"

\* run() leaves its wait loop when no promise is active.
RunMayReturn(ts) == activePromises(ts) = {}

\* run() builds the summary and crawl() hands it to onComplete.
Finish ==
    /\ pc = "running"
    /\ RunMayReturn(tasks)
    /\ summaries' = Append(summaries, buildCrawlSummary(stats, queue, failures, cancelled))
    /\ pc' = "done"
    /\ UNCHANGED <<options, world, queue, failures, stats, tasks, activeCount,
                   processedPages, runningCount, cancelled, pages, accepted, faults, observed>>

Complete ==
    \E i \in 1..Len(tasks) : \E thrown \in world.throws :
        \E r1 \in Responses(tasks[i].item.url) :
            IF r1.t = "throw" /\ isRetryableFetchError(r1)
            THEN \E r2 \in Responses(tasks[i].item.url) :
                     TaskComplete(i, <<r1, r2>>, thrown)
            ELSE TaskComplete(i, <<r1, r1>>, thrown)

Start == \E i \in 1..Len(tasks) : LimiterStart(i)

Settle == \E i \in 1..Len(tasks) : TaskFinally(i)

Next ==
    \/ Run
    \/ Start
    \/ Complete
    \/ Settle
    \/ Cancel
    \/ Finish

Spec == Init /\ [][Next]_vars

\* A two-page cycle: the seed page links to /x and /x links back to the seed.
\* Every fetchPage call of every attempt may deviate from the site.
RelRoot == Url("", "", "", Root, "")

CycleWorld ==
    [site |-> (Http("a", Root) :> <<RelX>>) @@ (Http("a", PathX) :> <<RelRoot>>),
     redirects |-> [u \in {} |-> {}],
     codes |-> {"ECONNRESET", "ABORT"},
     budget |-> 2 * (MAX_ADDITIONAL_ATTEMPTS + 1) * (DEFAULT_MAX_RETRIES + 1),
     throws |-> {NoThrow}]

InitCycle ==
    \E c \in 1..MaxConcurrency, m \in 0..MaxPagesCap :
        InitEngine([concurrency |-> c, maxPages |-> m,
                    normalizedStart |-> normalizeUrl(StartUrl, StartUrl)], CycleWorld)

SpecCycle == InitCycle /\ [][Next]_vars

\* The event loop runs every callback that is ready, and every fetchPage call
\* returns or throws, at the latest when its deadline expires.
Fairness ==
    /\ WF_vars(Run)
    /\ WF_vars(Start)
    /\ WF_vars(Complete)
    /\ WF_vars(Settle)
    /\ WF_vars(Finish)

FairSpecCycle == SpecCycle /\ Fairness

\* The site, where one fetchPage result may deviate, with an onPage handler
\* that may throw a plain Error or a recoverable CrawlerError.
ThrowingWorld ==
    [World EXCEPT !.budget = 1,
                  !.codes = {"ABORT"},
                  !.throws = {NoThrow, OtherValue("boom"),
                              CrawlerError("skip", "output", "recoverable")}]

InitThrowing ==
    \E c \in 1..MaxConcurrency, m \in 0..MaxPagesCap :
        InitEngine([concurrency |-> c, maxPages |-> m,
                    normalizedStart |-> normalizeUrl(StartUrl, StartUrl)],
                   ThrowingWorld)

SpecThrowing == InitThrowing /\ [][Next]_vars

\* A site on host a that is served over http and https: the seed page links
\* to /x over https, to host b over https and to /y; every request is
\* answered by the site's page.
SecureX == Url("https", "a", "", PathX, "")
SecureOther == Url("HTTPS", "B", "443", Root, "")
RelY == Url("", "", "", PathY, "")

SchemeWorld ==
    [site |-> (Http("a", Root) :> <<SecureX, SecureOther, RelY>>)
              @@ (SecureX :> <<RelRoot, RelY>>)
              @@ (Http("a", PathY) :> <<RelX>>),
     redirects |-> [u \in {} |-> {}],
     codes |-> {"ABORT"},
     budget |-> 0,
     throws |-> {NoThrow}]

InitScheme ==
    \E c \in 1..MaxConcurrency, m \in 0..MaxPagesCap :
        InitEngine([concurrency |-> c, maxPages |-> m,
                    normalizedStart |-> normalizeUrl(StartUrl, StartUrl)],
                   SchemeWorld)

SpecScheme == InitScheme /\ [][Next]_vars

FairSpecScheme == SpecScheme /\ Fairness

\* A site three links deep: the seed links to /x and /y, /x to /z, /z to /w,
\* and /y to /w and /v.  One fetchPage result may deviate.
PathZ == <<"/", "z">>
PathW == <<"/", "w">>
PathV == <<"/", "v">>
Rel(path) == Url("", "", "", path, "")

DeepWorld ==
    [site |-> (Http("a", Root) :> <<Rel(PathX), Rel(PathY)>>)
              @@ (Http("a", PathX) :> <<Rel(PathZ)>>)
              @@ (Http("a", PathZ) :> <<Rel(PathW)>>)
              @@ (Http("a", PathY) :> <<Rel(PathW), Rel(PathV)>>),
     redirects |-> [u \in {} |-> {}],
     codes |-> {"ABORT"},
     budget |-> 1,
     throws |-> {NoThrow}]

InitDeep ==
    \E c \in 1..MaxConcurrency, m \in 0..MaxPagesCap :
        InitEngine([concurrency |-> c, maxPages |-> m,
                    normalizedStart |-> normalizeUrl(StartUrl, StartUrl)],
                   DeepWorld)

SpecDeep == InitDeep /\ [][Next]_vars

\* fetchPageWithRetry on its own: one call for a URL of the site, with the
\* fetch errors of every retryable code, of another code and of the deadline.
FetchWorld ==
    [World EXCEPT !.codes = RETRYABLE_ERROR_CODES \cup {"ENOTFOUND", "ABORT"}]

InitFetch ==
    InitEngine([concurrency |-> 1, maxPages |-> 0,
                normalizedStart |-> normalizeUrl(StartUrl, StartUrl)], FetchWorld)

\* The call returns outcome after the fetchPage results rs.
FetchReturned(url, rs, outcome) ==
    /\ tasks' = <<[item |-> QueueItem(url, 0, 0), st |-> "settled",
                   rs |-> SubSeq(rs, 1, outcome.requests), outcome |-> outcome,
                   thrown |-> NoThrow, rejected |-> FALSE, awaited |-> FALSE]>>
    /\ pc' = "fetched"
    /\ UNCHANGED <<options, world, queue, failures, stats, activeCount, processedPages,
                   runningCount, cancelled, pages, summaries, accepted, faults, observed>>

FetchCall ==
    /\ pc = "init"
    /\ \E url \in DOMAIN world.site :
           \E r1 \in Responses(url) : \E r2 \in Responses(url) :
               \E outcome \in {fetchPageWithRetry(url, <<r1, r2>>)} :
                   FetchReturned(url, <<r1, r2>>, outcome)

NextFetch == FetchCall

SpecFetch == InitFetch /\ [][NextFetch]_vars

\* ------------------------------------------------- CrawlQueue on its own
\* The queue is driven by enqueueIfNew, enqueueRetry and dequeue calls.  Before
\* the first dequeue the frontier may grow to MaxAppends items; later an item
\* is appended only while fewer than MaxPending wait.  observed keeps the last
\* call, the number of items appended and the number of dequeue calls that
\* returned an item.
MaxAppends == 66
MaxPending == 3
MaxRetryEnqueues == 1

Digits == <<"0", "1", "2", "3", "4", "5", "6", "7", "8", "9">>

\* The n-th URL offered to the queue is http://a/NN; the seed is number 0.
QueuePath(n) ==
    IF n = 0 THEN Root ELSE <<"/", Digits[(n \div 10) + 1], Digits[(n % 10) + 1]>>

QueueUrl(n) == Http("a", QueuePath(n))

ComponentOptions == [concurrency |-> 1, maxPages |-> 0, normalizedStart |-> QueueUrl(0)]

InitQueue ==
    /\ InitComponents(ComponentOptions, World)
    /\ pc = "queue"
    /\ observed = [op |-> "new", item |-> QueueItem(QueueUrl(0), 0, 0), ok |-> TRUE,
                   appended |-> 1, taken |-> 0, retries |-> 0]

QueueFrame ==
    UNCHANGED <<options, world, failures, tasks, activeCount, processedPages,
                runningCount, cancelled, pc, pages, summaries, accepted, faults>>

MayAppend ==
    /\ observed.appended < MaxAppends
    /\ observed.taken = 0 \/ pending(queue) < MaxPending

\* queue.enqueueIfNew(url, depth) has returned res.
EnqueueIfNewReturned(res, url, depth) ==
    /\ queue' = res.q
    /\ observed' = [observed EXCEPT !.op = "enqueueIfNew",
                                    !.item = QueueItem(url, depth, 0),
                                    !.ok = res.ret,
                                    !.appended = IF res.ret THEN @ + 1 ELSE @]
    /\ UNCHANGED stats

\* The URL offered is the one accepted last (the seed at first) or one never
\* offered.
EnqueueIfNewCall ==
    /\ pc = "queue"
    /\ MayAppend
    /\ \E n \in {uniqueCount(queue) - 1, uniqueCount(queue)} :
           \E res \in {enqueueIfNew(queue, QueueUrl(n), 1)} :
               EnqueueIfNewReturned(res, QueueUrl(n), 1)
    /\ QueueFrame

\* this.enqueueRetry(item) of the engine has returned e.
EnqueueRetryReturned(e, item) ==
    /\ queue' = e.queue
    /\ stats' = e.stats
    /\ observed' = [observed EXCEPT !.op = "enqueue",
                                    !.item = item,
                                    !.ok = TRUE,
                                    !.appended = @ + 1,
                                    !.retries = @ + 1]

\* The retry item is for a URL that the seen-set does not hold.
EnqueueRetryCall ==
    /\ pc = "queue"
    /\ MayAppend
    /\ observed.retries < MaxRetryEnqueues
    /\ observed.taken > 0
    /\ \E e \in {enqueueRetry(Eng(queue, stats, failures, pages, accepted),
                              QueueItem(Http("a", PathX), 0, 1))} :
           EnqueueRetryReturned(e, QueueItem(Http("a", PathX), 0, 1))
    /\ QueueFrame

\* queue.dequeue() has returned d.item.
DequeueReturned(d) ==
    /\ queue' = d.q
    /\ observed' = [observed EXCEPT !.op = "dequeue",
                                    !.item = d.item,
                                    !.ok = TRUE,
                                    !.taken = IF d.item = NoItem THEN @ ELSE @ + 1]
    /\ UNCHANGED stats

DequeueCall ==
    /\ pc = "queue"
    /\ \E d \in {dequeue(queue)} : DequeueReturned(d)
    /\ QueueFrame

NextQueue ==
    \/ EnqueueIfNewCall
    \/ EnqueueRetryCall
    \/ DequeueCall

SpecQueue == InitQueue /\ [][NextQueue]_vars

\* ------------------------------------------- FailureTracker on its own
\* record and resolve calls in any order, until the log holds MaxLog events.
\* observed keeps the last call and its arguments.
MaxLog == 3
MaxAttempt == 2

FailureUrls == {Http("a", Root), Http("a", PathX)}

FailureCall(op, item, url, reason, allowRetry, maxAdditionalAttempts) ==
    [op |-> op, item |-> item, url |-> url, reason |-> reason,
     allowRetry |-> allowRetry, maxAdditionalAttempts |-> maxAdditionalAttempts]

InitTracker ==
    /\ InitComponents(ComponentOptions, World)
    /\ pc = "tracker"
    /\ observed = FailureCall("new", NoItem, NullUrl, "", FALSE, 0)

TrackerFrame ==
    UNCHANGED <<options, world, tasks, activeCount, processedPages, runningCount,
                cancelled, pc, pages, summaries, accepted, faults>>

\* failures.record(item, page, reason): the item is the seed's, the page has
\* the URL of the response.
TrackerRecord(item, url, reason) ==
    /\ failures' = record(failures, item, PageResult(url, item.depth, 0, <<>>, reason),
                          reason)
    /\ observed' = FailureCall("record", item, url, reason, FALSE, 0)
    /\ UNCHANGED <<queue, stats>>

TrackerRecordCall ==
    /\ pc = "tracker"
    /\ Len(failures.log) < MaxLog
    /\ \E url \in FailureUrls, attempt \in 0..MAX_ADDITIONAL_ATTEMPTS :
           TrackerRecord(QueueItem(Http("a", Root), 0, attempt), url, "HTTP 500")
    /\ TrackerFrame

\* failures.resolve(url)
TrackerResolveCall ==
    /\ pc = "tracker"
    /\ \E url \in FailureUrls :
           /\ failures' = resolve(failures, url)
           /\ observed' = FailureCall("resolve", NoItem, url, "", FALSE, 0)
    /\ UNCHANGED <<queue, stats>>
    /\ TrackerFrame

NextTracker ==
    \/ TrackerRecordCall
    \/ TrackerResolveCall

SpecTracker == InitTracker /\ [][NextTracker]_vars

\* ---------------------------------------------- recordFailure on its own
\* recordFailure calls with every attempt and attempt budget up to MaxAttempt,
\* with and without allowRetry, with the engine's enqueueRetry.
InitRecordFailure ==
    /\ InitComponents(ComponentOptions, World)
    /\ pc = "recordFailure"
    /\ observed = FailureCall("new", NoItem, NullUrl, "", FALSE, 0)

RecordFailureReturned(e, call) ==
    /\ queue' = e.queue
    /\ stats' = e.stats
    /\ failures' = e.failures
    /\ observed' = call

RecordFailureCall ==
    /\ pc = "recordFailure"
    /\ Len(failures.log) < MaxLog
    /\ \E attempt \in 0..MaxAttempt, allowRetry \in BOOLEAN,
          maxAdditionalAttempts \in 0..MaxAttempt :
           \E e \in {recordFailure(Eng(queue, stats, failures, pages, accepted),
                                   QueueItem(Http("a", Root), 0, attempt),
                                   PageResult(Http("a", PathX), 0, 0, <<>>, "HTTP 500"),
                                   "HTTP 500", allowRetry, maxAdditionalAttempts)} :
               RecordFailureReturned(e, FailureCall("recordFailure",
                                                    QueueItem(Http("a", Root), 0, attempt),
                                                    Http("a", PathX), "HTTP 500",
                                                    allowRetry, maxAdditionalAttempts))
    /\ TrackerFrame

NextRecordFailure == RecordFailureCall

SpecRecordFailure == InitRecordFailure /\ [][NextRecordFailure]_vars

\* ------------------------------------------ reportCrawlerError on its own
\* One call with any thrown value and any options.
ThrownValues ==
    {OtherValue("oops")}
        \cup {CrawlerError("boom", k, v) : k \in ErrorKinds, v \in ErrorSeverities}

AllErrorHandlingOptions ==
    {ErrorHandlingOptions(k, v, t) :
         k \in ErrorKinds \cup {""}, v \in ErrorSeverities \cup {""},
         t \in {"", "true", "false"}}

InitReport ==
    /\ InitComponents(ComponentOptions, World)
    /\ pc = "report"
    /\ \E error \in ThrownValues, opts \in AllErrorHandlingOptions :
           observed = [op |-> "input", error |-> error, options |-> opts,
                       result |-> Reported(OtherValue(""), opts)]

ReportCall ==
    /\ pc = "report"
    /\ observed.op = "input"
    /\ observed' = [observed EXCEPT
                       !.op = "reportCrawlerError",
                       !.result = reportCrawlerError(observed.error, observed.options)]
    /\ UNCHANGED <<options, world, queue, failures, stats, tasks, activeCount,
                   processedPages, runningCount, cancelled, pc, pages, summaries,
                   accepted, faults>>

NextReport == ReportCall

SpecReport == InitReport /\ [][NextReport]_vars

\* ------------------------------------------------ normalizeUrl on its own
\* One normalizeUrl call for a raw link and a base, and a second call for
\* what the first one returned.  The raw links are absolute with any
\* scheme, host, port and fragment, or relative to the base; their paths
\* are the strings of "/" and "x" that start with "/", up to MaxPathLen long.
MaxPathLen == 4

RECURSIVE Paths(_)
Paths(n) ==
    IF n = 1
    THEN {Root}
    ELSE Paths(n - 1)
             \cup {Append(p, c) : p \in {q \in Paths(n - 1) : Len(q) = n - 1},
                                 c \in {"/", "x"}}

RawLinks ==
    {Url(s, h, p, path, f) :
         s \in {"http", "HTTP", "https", "ftp"}, h \in {"a", "A"},
         p \in {"", "80", "443", "8080"}, path \in Paths(MaxPathLen), f \in {"", "top"}}
        \cup {Url("", "", "", path, f) : path \in Paths(MaxPathLen), f \in {"", "top"}}

Bases == {Http("a", Root), Url("https", "b", "8080", PathX, "")}

InitNormalize ==
    /\ InitComponents(ComponentOptions, World)
    /\ pc = "normalize"
    /\ \E raw \in RawLinks, base \in Bases :
           observed = [op |-> "input", raw |-> raw, base |-> base,
                       result |-> NullUrl, again |-> NullUrl]

Normalized(result, base) ==
    /\ observed' = [observed EXCEPT
                       !.op = "normalizeUrl",
                       !.result = result,
                       !.again = IF result = NullUrl
                                 THEN NullUrl
                                 ELSE normalizeUrl(result, base)]
    /\ UNCHANGED <<options, world, queue, failures, stats, tasks, activeCount,
                   processedPages, runningCount, cancelled, pc, pages, summaries,
                   accepted, faults>>

NormalizeCall ==
    /\ pc = "normalize"
    /\ observed.op = "input"
    /\ \E result \in {normalizeUrl(observed.raw, observed.base)} :
           Normalized(result, observed.base)

NextNormalize == NormalizeCall

SpecNormalize == InitNormalize /\ [][NextNormalize]_vars

\* ================================================================= claims
SeedHost == options.normalizedStart.host

\* The retry items still waiting in the frontier.
RetriesInFrontier ==
    Cardinality({i \in (queue.head + 1)..Len(queue.queue) : queue.queue[i].attempt > 0})

\* The tasks whose handleItem has run to its end.
CompletedTasks == {i \in 1..Len(tasks) : tasks[i].st \in {"settled", "done"}}

\* C1: the number of tasks running handleItem never exceeds the configured
\* concurrency, and neither does the actualMaxConcurrency of the statistics
\* and of the summary.
C1_ConcurrencyBound ==
    /\ runningCount <= options.concurrency
    /\ stats.actualMaxConcurrency <= options.concurrency
    /\ \A k \in 1..Len(summaries) :
           summaries[k].actualMaxConcurrency <= options.concurrency

\* The limiter holds a task back: every slot is taken and a task waits.
C1_Witness ==
    /\ runningCount = options.concurrency
    /\ \E i \in 1..Len(tasks) : tasks[i].st = "queued"

\* C2: enqueueIfNew returns true at most once per normalized URL and never for
\* the seed, so no URL is appended to the frontier with attempt 0 twice.
C2_NoDuplicateDiscovery ==
    /\ \A i, j \in 1..Len(accepted) : accepted[i].url = accepted[j].url => i = j
    /\ \A i \in 1..Len(accepted) : accepted[i].url # options.normalizedStart
    /\ \A i, j \in 1..Len(queue.queue) :
           (/\ queue.queue[i].attempt = 0
            /\ queue.queue[j].attempt = 0
            /\ queue.queue[i].url = queue.queue[j].url) => i = j

\* Two pages were discovered and links to known URLs were turned down,
\* among them a link to a discovered page (the seed's page alone yields one
\* duplicate, the link to itself).
C2_Witness ==
    /\ Len(accepted) >= 2
    /\ stats.duplicatesFiltered >= 3

\* C3: every URL enqueued, added to the seen-set or emitted as a
\* PageResult.url has the hostname of the seed URL.
C3_NeverLeavesStartHost ==
    /\ \A i \in 1..Len(queue.queue) : queue.queue[i].url.host = SeedHost
    /\ \A u \in queue.seen : u.host = SeedHost
    /\ \A k \in 1..Len(pages) : pages[k].url.host = SeedHost

\* C4: every link of an emitted PageResult has the hostname of that
\* PageResult's url, and enqueueIfNew only accepts a link with the hostname of
\* the page it was found on.
C4_HostContainment ==
    /\ \A k \in 1..Len(pages) :
           \A l \in 1..Len(pages[k].links) : pages[k].links[l].host = pages[k].url.host
    /\ \A i \in 1..Len(accepted) : accepted[i].url.host = accepted[i].from.host

\* A page whose HTML holds a link to another host was emitted with its
\* in-host link only (the site's page at host b links to /x and to host a).
C4_Witness ==
    \E k \in 1..Len(pages) :
        /\ pages[k].url = Http("b", Root)
        /\ pages[k].links = <<Http("b", PathX)>>

\* C5: pagesVisited = pagesSucceeded + pagesFailed, in every state and in the
\* summary.
C5_CounterConsistency ==
    /\ stats.pagesVisited = stats.pagesSucceeded + stats.pagesFailed
    /\ \A k \in 1..Len(summaries) :
           summaries[k].pagesVisited = summaries[k].pagesSucceeded + summaries[k].pagesFailed

\* A crawl with a failed fetch, a retry and a parse failure has ended.
C5_Witness ==
    /\ pc = "done"
    /\ summaries[1].pagesSucceeded >= 1
    /\ summaries[1].retryAttempts >= 1
    /\ summaries[1].pagesFailed >= 2

\* C6 as claimed: at crawl end retryAttempts = retrySuccesses + retryFailures.
C6_RetriesAllSettled ==
    pc = "done" =>
        summaries[1].retryAttempts = summaries[1].retrySuccesses + summaries[1].retryFailures

\* C6 as amended: at crawl end retryAttempts = retrySuccesses + retryFailures
\* + the number of retry items left in the frontier; no retry item is left
\* when no maxPages is set and the crawl was not cancelled.
C6_RetriesSettledOrLeft ==
    pc = "done" =>
        /\ summaries[1].retryAttempts =
               summaries[1].retrySuccesses + summaries[1].retryFailures + RetriesInFrontier
        /\ (options.maxPages = 0 /\ ~summaries[1].cancelled) => RetriesInFrontier = 0

\* The crawl has ended with one retry run and another scheduled but never
\* run.
C6_Witness ==
    /\ pc = "done"
    /\ RetriesInFrontier > 0
    /\ summaries[1].retrySuccesses > 0

\* C7: every QueueItem that was ever appended to the frontier or admitted has
\* attempt 0 or 1.
C7_RetryBound ==
    /\ \A i \in 1..Len(queue.queue) : queue.queue[i].attempt \in {0, 1}
    /\ \A i \in 1..Len(tasks) : tasks[i].item.attempt \in {0, 1}

\* An item with attempt 1 has failed, and the frontier is empty.
C7_Witness ==
    /\ stats.retryFailures >= 1
    /\ pending(queue) = 0

\* C8: at most one summary is emitted, exactly one once crawl() has returned,
\* and no PageResult is emitted after a summary.
C8_SummaryLast ==
    /\ [](Len(summaries) <= 1 /\ (pc = "done" <=> Len(summaries) = 1))
    /\ [][Len(summaries) > 0 => pages' = pages]_vars

\* The summary of a crawl of several pages was emitted.
C8_Witness ==
    /\ Len(summaries) = 1
    /\ Len(pages) >= 3

\* C9: pagesVisited is the number of onPage calls, and both are the number of
\* tasks whose handleItem has finished.
C9_PagesVisitedIsOnPageCalls ==
    /\ stats.pagesVisited = Len(pages)
    /\ Cardinality(CompletedTasks) = Len(pages)
    /\ \A k \in 1..Len(summaries) : summaries[k].pagesVisited = Len(pages)

\* A crawl has ended that took the fetch-failure path, the parse-failure
\* path and the path with links.
C9_Witness ==
    /\ pc = "done"
    /\ \E k \in 1..Len(pages) : pages[k].error = ParseFailureMessage
    /\ \E k \in 1..Len(pages) : pages[k].error \in {"ABORT", "ECONNRESET", "HTTP 500"}
    /\ \E k \in 1..Len(pages) : pages[k].error = "" /\ Len(pages[k].links) > 0

\* The path of a success without HTML.
C9_WitnessNoHtml ==
    /\ pc = "done"
    /\ \E k \in 1..Len(pages) :
           pages[k].error = "" /\ pages[k].links = <<>> /\ pages[k].url = Http("a", PathX)

\* C10: with maxPages set, the items admitted (processed plus active) never
\* exceed it, so pagesVisited does not either, and the summary of a crawl that
\* was not interrupted says cancelled = false.
C10_MaxPagesBound ==
    options.maxPages # 0 =>
        /\ Len(tasks) <= options.maxPages
        /\ processedPages + activeCount = Len(tasks)
        /\ stats.pagesVisited <= options.maxPages
        /\ \A k \in 1..Len(summaries) :
               /\ summaries[k].pagesVisited <= options.maxPages
               /\ ~cancelled => ~summaries[k].cancelled

\* The cap stopped the admission: the crawl has ended with items left in the
\* frontier, as many admitted as the cap allows, and cancelled = false.
C10_Witness ==
    /\ pc = "done"
    /\ options.maxPages # 0
    /\ Len(tasks) = options.maxPages
    /\ pending(queue) > 0
    /\ ~summaries[1].cancelled

\* C11: once cancelled is set no item is dequeued and no task is admitted, by
\* runQueue or by a .finally callback; the summary of a cancelled crawl is
\* built when every admitted task has emitted its PageResult and settled, and
\* says cancelled = true whatever the frontier holds.
C11_CancelStopsAdmission ==
    /\ [][cancelled => (Len(tasks') = Len(tasks) /\ pending(queue') >= pending(queue))]_vars
    /\ []((pc = "done" /\ cancelled) =>
              /\ summaries[1].cancelled
              /\ \A i \in 1..Len(tasks) : tasks[i].st = "done"
              /\ Len(pages) = Len(tasks))

\* A crawl without maxPages was cancelled after several admissions and has
\* ended with items left in the frontier.
C11_Witness ==
    /\ pc = "done"
    /\ summaries[1].cancelled
    /\ options.maxPages = 0
    /\ Len(tasks) >= 2
    /\ pending(queue) > 0

C13_SummaryWhenDrained ==
    Len(summaries) > 0 =>
        /\ activePromises(tasks) = {}
        /\ activeCount = 0
        /\ runningCount = 0
        /\ (/\ ~summaries[1].cancelled
            /\ ~(options.maxPages # 0 /\ processedPages >= options.maxPages))
               => pending(queue) = 0

\* An uninterrupted crawl without maxPages has ended after discoveries and a
\* retry, with nothing left in the frontier.
C13_Witness ==
    /\ pc = "done"
    /\ ~summaries[1].cancelled
    /\ options.maxPages = 0
    /\ summaries[1].retryAttempts > 0
    /\ Len(tasks) >= 4
    /\ pending(queue) = 0

\* The tasks that fetched an HTML page whose links were parsed.
HtmlTasks ==
    {i \in 1..Len(tasks) : /\ tasks[i].st = "done"
                           /\ tasks[i].outcome.ok
                           /\ tasks[i].outcome.html
                           /\ ~tasks[i].outcome.parseThrows}

\* The URLs the page of task i links to.
LinkedFrom(i) ==
    {normalizeUrl(tasks[i].outcome.links[l], tasks[i].outcome.url) :
         l \in 1..Len(tasks[i].outcome.links)} \ {NullUrl}

\* A task has requested u and has settled.
Requested(u) == \E i \in 1..Len(tasks) : tasks[i].item.url = u /\ tasks[i].st = "done"

\* A PageResult with url u was emitted.
Emitted(u) == \E k \in 1..Len(pages) : pages[k].url = u

\* The crawl has ended without maxPages and without cancellation.
Uninterrupted == pc = "done" /\ options.maxPages = 0 /\ ~summaries[1].cancelled

\* C14 as claimed: at the end of an uninterrupted crawl every URL of the
\* seed's host that a successfully fetched HTML page links to has been
\* requested and is the url of an emitted PageResult.
C14_AllReachableEmitted ==
    Uninterrupted =>
        \A i \in HtmlTasks : \A u \in LinkedFrom(i) :
            u.host = SeedHost => (Requested(u) /\ Emitted(u))

\* C14 as amended: at the end of an uninterrupted crawl the frontier is
\* empty, every admitted task has emitted a PageResult under the normalized
\* URL of its response, and every URL that a successfully fetched HTML page
\* links to on that page's own host has been requested by a task or is the
\* url of an emitted PageResult.
C14_AllLinkedFetched ==
    Uninterrupted =>
        /\ pending(queue) = 0
        /\ Len(pages) = Len(tasks)
        /\ \A i \in 1..Len(tasks) : Emitted(normalizeOrFallback(tasks[i].outcome.url))
        /\ \A i \in HtmlTasks : \A u \in LinkedFrom(i) :
               u.host = normalizeOrFallback(tasks[i].outcome.url).host
                   => (Requested(u) \/ Emitted(u))

\* An uninterrupted crawl has ended in which the fetch of the linked URL /y
\* was redirected: /y was requested and no PageResult carries its URL.
C14_Witness ==
    /\ Uninterrupted
    /\ Http("a", PathY) \in UNION {LinkedFrom(i) : i \in HtmlTasks}
    /\ Requested(Http("a", PathY))
    /\ ~Emitted(Http("a", PathY))

\* C15: no URL is the url of two PageResults that were emitted without an
\* error.
C15_VisitedOnce ==
    \A j, k \in 1..Len(pages) :
        (/\ pages[j].url = pages[k].url
         /\ pages[j].error = ""
         /\ pages[k].error = "") => j = k

\* The number of fetchPage calls that the first n tasks have issued for u.
RECURSIVE RequestsTo(_, _)
RequestsTo(u, n) ==
    IF n = 0
    THEN 0
    ELSE RequestsTo(u, n - 1) + (IF tasks[n].item.url = u THEN Len(tasks[n].rs) ELSE 0)

\* C16: over the whole crawl at most two requests are issued for any URL.
C16_AtMostTwoRequests ==
    \A i \in 1..Len(tasks) : RequestsTo(tasks[i].item.url, Len(tasks)) <= 2

\* C17: one fetchPageWithRetry call issues one or two requests, the second
\* exactly when the first threw an error with code ECONNRESET, ETIMEDOUT or
\* EAI_AGAIN; what the last request did is the outcome: a thrown error (a
\* deadline expiry too) is a failure with the requested URL and no status, a
\* non-2xx response a failure "HTTP <status>", a 2xx response a success.
C17_FetchRetryPolicy ==
    \A i \in CompletedTasks :
        LET rs == tasks[i].rs
            o == tasks[i].outcome
            last == rs[Len(rs)]
        IN /\ o.requests = Len(rs)
           /\ Len(rs) \in {1, 2}
           /\ Len(rs) = 2 <=> (/\ rs[1].t = "throw"
                               /\ rs[1].code \in {"ECONNRESET", "ETIMEDOUT", "EAI_AGAIN"})
           /\ last.t = "throw" =>
                  (/\ ~o.ok
                   /\ o.url = tasks[i].item.url
                   /\ o.status = 0
                   /\ o.failureReason = last.code)
           /\ (last.t = "resp" /\ ~last.ok) =>
                  (/\ ~o.ok
                   /\ o.url = last.url
                   /\ o.status = last.status
                   /\ o.failureReason = HttpReason(last.status))
           /\ (last.t = "resp" /\ last.ok) => (o.ok /\ o.url = last.url)

\* A call has issued a second request after a transient error and has
\* failed on it.
C17_Witness ==
    \E i \in CompletedTasks :
        /\ Len(tasks[i].rs) = 2
        /\ tasks[i].rs[1].code = "EAI_AGAIN"
        /\ tasks[i].rs[2].t = "throw"
        /\ ~tasks[i].outcome.ok

\* A call has ended on a deadline expiry after one request.
C17_WitnessDeadline ==
    \E i \in CompletedTasks : tasks[i].rs = <<Throw("ABORT")>> /\ ~tasks[i].outcome.ok

\* A call has ended on a non-2xx response after one request.
C17_WitnessHttp ==
    \E i \in CompletedTasks :
        /\ Len(tasks[i].rs) = 1
        /\ tasks[i].rs[1].t = "resp"
        /\ ~tasks[i].rs[1].ok
        /\ tasks[i].outcome.failureReason = "HTTP 500"

\* The FailureEvents of u, in the order of the log.
EventsOf(u) == {k \in 1..Len(summaries[1].failureLog) : summaries[1].failureLog[k].url = u}

\* Scenario C: an uninterrupted crawl has ended in which every fetch of u
\* ran into its deadline and every other fetch returned the site's page.
ScenarioC(u) ==
    /\ Uninterrupted
    /\ \E i \in 1..Len(tasks) : tasks[i].item.url = u
    /\ \A i \in 1..Len(tasks) :
           IF tasks[i].item.url = u
           THEN tasks[i].rs = <<Throw("ABORT")>>
           ELSE Len(tasks[i].rs) = 1 /\ Nominal(tasks[i].item.url, tasks[i].rs[1])

\* C18 as claimed: in scenario C the crawl ends with pagesFailed = 1,
\* retryAttempts = 1, retryFailures = 1 and one unresolved FailureEvent.
C18_OneFailedPage ==
    \A u \in DOMAIN world.site :
        ScenarioC(u) =>
            /\ summaries[1].pagesFailed = 1
            /\ summaries[1].retryAttempts = 1
            /\ summaries[1].retryFailures = 1
            /\ Cardinality(EventsOf(u)) = 1
            /\ \A k \in EventsOf(u) : ~summaries[1].failureLog[k].resolvedOnRetry

\* C18 as amended: in scenario C the URL is fetched twice and fails twice,
\* so the crawl ends with pagesFailed = 2, retryAttempts = 1,
\* retryFailures = 1, retrySuccesses = 0 and two unresolved FailureEvents of
\* the URL, of attempts 1 and 2, and two PageResults with an error.
C18_TwoFailedAttempts ==
    \A u \in DOMAIN world.site :
        ScenarioC(u) =>
            /\ summaries[1].pagesFailed = 2
            /\ summaries[1].retryAttempts = 1
            /\ summaries[1].retryFailures = 1
            /\ summaries[1].retrySuccesses = 0
            /\ Len(summaries[1].failureLog) = 2
            /\ EventsOf(u) = {1, 2}
            /\ \A k \in {1, 2} :
                   /\ summaries[1].failureLog[k].attempt = k
                   /\ ~summaries[1].failureLog[k].resolvedOnRetry
            /\ Cardinality({k \in 1..Len(pages) : pages[k].url = u /\ pages[k].error # ""}) = 2

\* Scenario C has happened for the page /x that the seed links to.
C18_Witness ==
    /\ ScenarioC(Http("a", PathX))
    /\ summaries[1].pagesSucceeded = 1

\* Scenario D: an uninterrupted crawl has ended in which the first fetch of u
\* failed, a retry item of u was admitted, and every other fetch, that of
\* the retry among them, returned the site's page.
ScenarioD(u) ==
    /\ Uninterrupted
    /\ \E i \in 1..Len(tasks) : tasks[i].item.url = u /\ tasks[i].item.attempt = 1
    /\ \A i \in 1..Len(tasks) :
           IF tasks[i].item.url = u /\ tasks[i].item.attempt = 0
           THEN ~tasks[i].outcome.ok
           ELSE Len(tasks[i].rs) = 1 /\ Nominal(tasks[i].item.url, tasks[i].rs[1])

\* The positions of the PageResults of u.
PagesOf(u) == {k \in 1..Len(pages) : pages[k].url = u}

\* C19: in scenario D the crawl ends with retrySuccesses = 1 and one
\* FailureEvent, that of the URL, with resolvedOnRetry = true, and two
\* PageResults were emitted for the URL: first one with an error, then one
\* without.
C19_RetrySucceeds ==
    \A u \in DOMAIN world.site :
        ScenarioD(u) =>
            /\ summaries[1].retryAttempts = 1
            /\ summaries[1].retrySuccesses = 1
            /\ summaries[1].retryFailures = 0
            /\ Len(summaries[1].failureLog) = 1
            /\ summaries[1].failureLog[1].url = u
            /\ summaries[1].failureLog[1].resolvedOnRetry
            /\ Cardinality(PagesOf(u)) = 2
            /\ \E j, k \in PagesOf(u) :
                   j < k /\ pages[j].error # "" /\ pages[k].error = ""

\* Scenario D has happened for the page /x: its first fetch failed after a
\* fetch-layer retry, its retry item succeeded.
C19_Witness ==
    /\ ScenarioD(Http("a", PathX))
    /\ \E i \in 1..Len(tasks) :
           tasks[i].item.url = Http("a", PathX) /\ Len(tasks[i].rs) = 2
    /\ summaries[1].pagesSucceeded >= 2

\* C20: on the two-page cycle, when every fetch returns the site's page and
\* the crawl is neither cancelled nor capped below two pages, the crawl ends
\* with two pages visited, one duplicate filtered and no failed page,
\* whatever the concurrency.
C20_TwoPageCycle ==
    (/\ pc = "done"
     /\ faults = 0
     /\ ~summaries[1].cancelled
     /\ options.maxPages # 1) =>
        /\ summaries[1].pagesVisited = 2
        /\ summaries[1].pagesSucceeded = 2
        /\ summaries[1].duplicatesFiltered = 1
        /\ summaries[1].pagesFailed = 0
        /\ summaries[1].uniqueUrlsDiscovered = 2
        /\ {pages[k].url : k \in 1..Len(pages)} = DOMAIN world.site
        /\ Len(pages) = 2

\* The crawl of the cycle has ended undisturbed with the widest limiter.
C20_Witness ==
    /\ pc = "done"
    /\ faults = 0
    /\ ~summaries[1].cancelled
    /\ options.maxPages = 0
    /\ options.concurrency = MaxConcurrency
    /\ summaries[1].duplicatesFiltered = 1

\* C21: the frontier is a FIFO queue.  An accepted enqueueIfNew and a retry
\* enqueue put their item behind the waiting ones, a rejected enqueueIfNew
\* leaves them alone, dequeue returns the item that waits longest and removes
\* it and no other, and returns none exactly when none waits; as many items
\* wait as were appended and not yet returned.
C21_Fifo ==
    /\ [][/\ (observed'.op \in {"enqueueIfNew", "enqueue"} =>
                   Frontier(queue') = (IF observed'.ok
                                       THEN Append(Frontier(queue), observed'.item)
                                       ELSE Frontier(queue)))
           /\ (observed'.op = "dequeue" =>
                   (IF Frontier(queue) = <<>>
                    THEN observed'.item = NoItem /\ Frontier(queue') = <<>>
                    ELSE /\ observed'.item = Head(Frontier(queue))
                         /\ Frontier(queue') = Tail(Frontier(queue))))]_vars
    /\ [](Len(Frontier(queue)) = observed.appended - observed.taken)

\* The array was compacted at the first dequeue at which the head index had
\* reached half of it, one dequeue after COMPACT_THRESHOLD, with items left.
C21_Witness ==
    /\ observed.op = "dequeue"
    /\ observed.taken = COMPACT_THRESHOLD + 1
    /\ queue.head = 0
    /\ pending(queue) > COMPACT_THRESHOLD

\* C22: pending is the number of items appended (the seed, every enqueueIfNew
\* that returned true, every retry enqueue) minus the number of dequeue calls
\* that returned an item, and is never negative.
C22_PendingCount ==
    /\ pending(queue) = observed.appended - observed.taken
    /\ pending(queue) >= 0

\* A dequeue has returned none after compactions, a retry enqueue and more
\* than COMPACT_THRESHOLD returned items.
C22_Witness ==
    /\ observed.op = "dequeue"
    /\ observed.item = NoItem
    /\ observed.retries > 0
    /\ observed.taken > COMPACT_THRESHOLD
    /\ pending(queue) = 0

\* C23: enqueueIfNew with a URL of the seen-set returns false and leaves the
\* queue as it was: pending, uniqueCount and the waiting items.
C23_DuplicateIsNoOp ==
    [][(observed'.op = "enqueueIfNew" /\ observed'.item.url \in queue.seen) =>
           /\ ~observed'.ok
           /\ queue' = queue
           /\ pending(queue') = pending(queue)
           /\ uniqueCount(queue') = uniqueCount(queue)
           /\ Frontier(queue') = Frontier(queue)]_vars

\* enqueueIfNew has turned down a URL whose item still waits, among others.
C23_Witness ==
    /\ observed.op = "enqueueIfNew"
    /\ ~observed.ok
    /\ pending(queue) >= 2
    /\ \E k \in 1..Len(Frontier(queue)) : Frontier(queue)[k].url = observed.item.url

\* C24: a retry enqueue appends its item, so pending grows by one, and
\* leaves the seen-set alone, so neither uniqueCount nor the summary's
\* uniqueUrlsDiscovered grows.
C24_RetryKeepsSeen ==
    [][observed'.op = "enqueue" =>
           /\ pending(queue') = pending(queue) + 1
           /\ Frontier(queue') = Append(Frontier(queue), observed'.item)
           /\ queue'.seen = queue.seen
           /\ uniqueCount(queue') = uniqueCount(queue)
           /\ buildCrawlSummary(stats', queue', failures', cancelled').uniqueUrlsDiscovered
                  = buildCrawlSummary(stats, queue, failures, cancelled).uniqueUrlsDiscovered]_vars

\* A retry item for a URL outside the seen-set waits in the frontier.
C24_Witness ==
    /\ observed.op = "enqueue"
    /\ observed.item.attempt = 1
    /\ observed.item.url \notin queue.seen
    /\ pending(queue) >= 2

\* The log positions of the events of url that no retry has resolved.
Unresolved(f, url) ==
    {k \in 1..Len(f.log) : f.log[k].url = url /\ ~f.log[k].resolvedOnRetry}

SetMax(S) == CHOOSE m \in S : \A k \in S : k <= m

\* C25: record appends one event with resolvedOnRetry = false to the log
\* and changes no other event; resolve(url) sets resolvedOnRetry of the
\* unresolved event of url that was recorded last, and of no other, and
\* changes nothing when url has no unresolved event; the log keeps its
\* length and order.
C25_TrackerContract ==
    [][/\ (observed'.op = "record" =>
               failures'.log =
                   Append(failures.log,
                          [url |-> observed'.url, depth |-> observed'.item.depth,
                           reason |-> observed'.reason,
                           attempt |-> observed'.item.attempt + 1,
                           resolvedOnRetry |-> FALSE]))
       /\ (observed'.op = "resolve" =>
               failures'.log =
                   (IF Unresolved(failures, observed'.url) = {}
                    THEN failures.log
                    ELSE [failures.log EXCEPT
                              ![SetMax(Unresolved(failures, observed'.url))].resolvedOnRetry
                                  = TRUE]))]_vars

\* Of two events of the seed the later one is resolved and the earlier one
\* is not, and an event of another URL is left unresolved.
C25_Witness ==
    /\ observed.op = "resolve"
    /\ Len(failures.log) = 3
    /\ \E j, k \in 1..3 :
           /\ j < k
           /\ failures.log[j].url = observed.url
           /\ failures.log[k].url = observed.url
           /\ ~failures.log[j].resolvedOnRetry
           /\ failures.log[k].resolvedOnRetry
    /\ \E k \in 1..3 :
           failures.log[k].url # observed.url /\ ~failures.log[k].resolvedOnRetry

\* C26: recordFailure appends one FailureEvent and then: with allowRetry and
\* item.attempt < maxAdditionalAttempts it adds one to retryAttempts and
\* enqueues one retry item of the page's URL with attempt + 1; with
\* allowRetry and no attempt left it adds one to retryFailures and enqueues
\* nothing; without allowRetry it changes neither counter and enqueues
\* nothing.
C26_RecordFailureCases ==
    [][observed'.op = "recordFailure" =>
           /\ Len(failures'.log) = Len(failures.log) + 1
           /\ failures'.log[Len(failures'.log)].url = observed'.url
           /\ stats'.retryAttempts =
                  stats.retryAttempts
                      + (IF /\ observed'.allowRetry
                            /\ observed'.item.attempt < observed'.maxAdditionalAttempts
                         THEN 1 ELSE 0)
           /\ stats'.retryFailures =
                  stats.retryFailures
                      + (IF /\ observed'.allowRetry
                            /\ observed'.item.attempt >= observed'.maxAdditionalAttempts
                         THEN 1 ELSE 0)
           /\ queue'.queue =
                  (IF /\ observed'.allowRetry
                      /\ observed'.item.attempt < observed'.maxAdditionalAttempts
                   THEN Append(queue.queue,
                               QueueItem(observed'.url, observed'.item.depth,
                                         observed'.item.attempt + 1))
                   ELSE queue.queue)
           /\ queue'.seen = queue.seen
           /\ queue'.head = queue.head]_vars

\* A call without allowRetry has returned after a call that scheduled a
\* retry and one that had no attempt left.
C26_Witness ==
    /\ observed.op = "recordFailure"
    /\ ~observed.allowRetry
    /\ observed.item.attempt < observed.maxAdditionalAttempts
    /\ stats.retryAttempts = 1
    /\ stats.retryFailures = 1
    /\ pending(queue) = 2

\* C29 as claimed: reportCrawlerError wraps a value that is no CrawlerError
\* as an internal, fatal CrawlerError and returns a CrawlerError as it is; it
\* throws exactly when the error is fatal and throwOnFatal is not false.
C29_WrapsInternalFatal ==
    observed.op = "reportCrawlerError" =>
        /\ isCrawlerError(observed.error) => observed.result.error = observed.error
        /\ ~isCrawlerError(observed.error) =>
               observed.result.error =
                   CrawlerError(observed.error.message, "internal", "fatal")
        /\ observed.result.threw <=>
               (/\ observed.result.error.severity = "fatal"
                /\ observed.options.throwOnFatal # "false")
        /\ observed.result.error.severity = "recoverable" => ~observed.result.threw

\* C29 as amended: reportCrawlerError wraps a value that is no CrawlerError
\* as a CrawlerError of kind options.defaultKind (internal when not given)
\* and severity options.defaultSeverity (fatal when not given), and returns
\* a CrawlerError as it is; it throws exactly when the resulting error is
\* fatal and throwOnFatal is not false, never for a recoverable error.
C29_WrapsWithDefaults ==
    observed.op = "reportCrawlerError" =>
        /\ isCrawlerError(observed.error) => observed.result.error = observed.error
        /\ ~isCrawlerError(observed.error) =>
               /\ isCrawlerError(observed.result.error)
               /\ observed.result.error.message = observed.error.message
               /\ observed.result.error.kind =
                      (IF observed.options.defaultKind = ""
                       THEN "internal"
                       ELSE observed.options.defaultKind)
               /\ observed.result.error.severity =
                      (IF observed.options.defaultSeverity = ""
                       THEN "fatal"
                       ELSE observed.options.defaultSeverity)
        /\ observed.result.threw <=>
               (/\ observed.result.error.severity = "fatal"
                /\ observed.options.throwOnFatal # "false")
        /\ observed.result.error.severity = "recoverable" => ~observed.result.threw

\* A value that is no CrawlerError was wrapped with the defaults of the
\* command line's handler, config and fatal, and thrown.
C29_Witness ==
    /\ observed.op = "reportCrawlerError"
    /\ ~isCrawlerError(observed.error)
    /\ observed.options = ErrorHandlingOptions("config", "fatal", "")
    /\ observed.result.threw

\* A value that is no CrawlerError was wrapped without any default given.
C29_WitnessNoDefaults ==
    /\ observed.op = "reportCrawlerError"
    /\ ~isCrawlerError(observed.error)
    /\ observed.options = ErrorHandlingOptions("", "", "false")
    /\ observed.result.error = CrawlerError("oops", "internal", "fatal")
    /\ ~observed.result.threw

\* C30: when normalizeUrl(raw, base) returns a URL, normalizeUrl of that URL
\* with the same base returns it again.
C30_Idempotent ==
    (observed.op = "normalizeUrl" /\ observed.result # NullUrl) =>
        observed.again = observed.result

\* A link with an upper-case scheme and host, the default port, a fragment
\* and two trailing slashes was normalized to http://a/x.
C30_Witness ==
    /\ observed.op = "normalizeUrl"
    /\ observed.raw = Url("HTTP", "A", "80", <<"/", "x", "/", "/">>, "top")
    /\ observed.result = Http("a", PathX)
    /\ observed.again = Http("a", PathX)

\* C27: once a fatal error has escaped a task, no further item is admitted,
\* and run() does not return a summary: it rejects.
C27_FatalStopsCrawl ==
    /\ [][(\E i \in 1..Len(tasks) : tasks[i].rejected)
            => Len(tasks') = Len(tasks)]_vars
    /\ [](pc = "done" => \A i \in 1..Len(tasks) : ~tasks[i].rejected)

\* The outcome of a recoverable per-page failure: a fetch failure, a timeout,
\* a non-2xx response, or HTML whose links could not be extracted.
FailedOutcome(outcome) == ~outcome.ok \/ (outcome.ok /\ outcome.parseThrows)

\* C28: a recoverable per-page failure never escapes the orchestration loop.
\* The step that handles it emits one PageResult with error set, records one
\* FailureEvent and adds one to pagesFailed, and the task's promise does not
\* reject; the summary is still emitted, and an uninterrupted crawl without
\* maxPages still empties the frontier.
C28_FailureAbsorbed ==
    /\ [][\A i \in 1..Len(tasks) :
             (/\ tasks[i].st = "running"
              /\ tasks'[i].st = "settled"
              /\ FailedOutcome(tasks'[i].outcome))
             => (/\ Len(pages') = Len(pages) + 1
                 /\ SubSeq(pages', 1, Len(pages)) = pages
                 /\ pages'[Len(pages')].error # ""
                 /\ Len(failures'.log) = Len(failures.log) + 1
                 /\ failures'.log[Len(failures'.log)].reason
                        = pages'[Len(pages')].error
                 /\ stats'.pagesFailed = stats.pagesFailed + 1
                 /\ ~tasks'[i].rejected
                 /\ pc' = "running")]_vars
    /\ [](pc # "crashed")
    /\ <>(pc = "done" /\ Len(summaries) = 1)
    /\ [](pc = "done" /\ ~cancelled /\ options.maxPages = 0
             => pending(queue) = 0 /\ activePromises(tasks) = {})

\* An uninterrupted crawl has ended with its summary after a page that failed
\* in the fetch, a page that succeeded after it, and a page whose links could
\* not be extracted.
C28_Witness ==
    /\ pc = "done"
    /\ ~cancelled
    /\ Len(summaries) = 1
    /\ summaries[1].pagesFailed >= 2
    /\ \E i, j \in 1..Len(tasks) :
           /\ ~tasks[i].outcome.ok
           /\ tasks[i].outcome.hasError
           /\ tasks[j].outcome.parseThrows
    /\ \E k, l \in 1..Len(pages) :
           /\ pages[k].error = ""
           /\ pages[l].error = ParseFailureMessage
           /\ \E m \in 1..(k - 1) : pages[m].error \notin {"", ParseFailureMessage}

\* The normalized links of the page at url that have the scheme and the
\* hostname of url, and those that have its hostname.
SiteLinks(url) ==
    {normalizeUrl(SiteHrefs(url)[i], url) : i \in 1..Len(SiteHrefs(url))} \ {NullUrl}

SameSchemeAndHost(url) ==
    {l \in SiteLinks(url) : l.host = url.host /\ l.scheme = url.scheme}

SameHost(url) == {l \in SiteLinks(url) : l.host = url.host}

Listed(page) == {page.links[l] : l \in 1..Len(page.links)}

\* C31: a link is in-host only when its scheme and its hostname are those of
\* the visited page: the links of every PageResult that lists links are the
\* page's links of the same scheme and hostname, and enqueueIfNew only
\* accepts a link with the scheme and hostname of the page it was found on.
C31_SchemeAndHostMatched ==
    /\ \A k \in 1..Len(pages) :
           pages[k].links # <<>> => Listed(pages[k]) = SameSchemeAndHost(pages[k].url)
    /\ \A i \in 1..Len(accepted) :
           /\ accepted[i].url.host = accepted[i].from.host
           /\ accepted[i].url.scheme = accepted[i].from.scheme

\* C31, as the code has it: a link is in-host when its hostname is that of the
\* visited page, whatever its scheme.  The links of every PageResult that
\* lists links are the page's links of the same hostname, and enqueueIfNew
\* only accepts a link with the hostname of the page it was found on.
C31_HostMatched ==
    /\ \A k \in 1..Len(pages) :
           pages[k].links # <<>> => Listed(pages[k]) = SameHost(pages[k].url)
    /\ \A i \in 1..Len(accepted) : accepted[i].url.host = accepted[i].from.host

\* The seed page, fetched over http, was emitted with its https link to /x
\* and without its https link to host b, and the https page was enqueued and
\* emitted in turn.
C31_Witness ==
    /\ \E k \in 1..Len(pages) :
           /\ pages[k].url = Http("a", Root)
           /\ pages[k].links = <<SecureX, Http("a", PathY)>>
    /\ \E i \in 1..Len(accepted) :
           accepted[i] = [from |-> Http("a", Root), url |-> SecureX]
    /\ \E k \in 1..Len(pages) : pages[k].url = SecureX /\ pages[k].error = ""

\* The items were dequeued in non-decreasing depth order: tasks holds them in
\* the order in which runQueue dequeued them.
DepthOrdered(ts) == \A i, j \in 1..Len(ts) : i < j => ts[i].item.depth <= ts[j].item.depth

\* C32: items are dequeued in non-decreasing depth order, for any concurrency
\* and any completion order, also when failed items are re-enqueued.
C32_BreadthFirst == DepthOrdered(tasks)

\* C32, as the code has it: items are dequeued in the order in which they
\* were enqueued; the depth order is non-decreasing when the fetches complete
\* one at a time in admission order (concurrency 1) and no failed item is
\* re-enqueued for a retry.
C32_BreadthFirstWhenSerial ==
    (options.concurrency = 1 /\ stats.retryAttempts = 0) => DepthOrdered(tasks)

\* A crawl with concurrency 1 and no retry has ended after it dequeued the
\* six pages of the site, those of depth 2 last.
C32_Witness ==
    /\ pc = "done"
    /\ options.concurrency = 1
    /\ stats.retryAttempts = 0
    /\ Len(tasks) = 6
    /\ tasks[2].item.depth = 1
    /\ tasks[Len(tasks)].item.depth = 2

\* C33: the number of items that were dequeued and whose task has not
\* completed never exceeds the configured concurrency.
C33_AdmissionBounded == activeCount <= options.concurrency

\* C33, as the code has it: the limiter bounds the number of tasks that run
\* handleItem by the configured concurrency, but admission is not bounded by
\* it.  activeCount counts every dequeued item whose promise has not settled,
\* and runQueue dequeues every pending item (up to the maxPages cap), so
\* outside a task's completion an uninterrupted crawl without maxPages holds
\* no item in the frontier.
C33_RunningBounded ==
    /\ runningCount <= options.concurrency
    /\ runningCount = Cardinality(Running(tasks))
    /\ activeCount = Cardinality(activePromises(tasks))
    /\ (/\ pc = "running"
        /\ ~cancelled
        /\ options.maxPages = 0
        /\ \A i \in 1..Len(tasks) : tasks[i].st # "settled")
           => pending(queue) = 0

\* With every slot of the limiter taken, more items than the concurrency have
\* left the frontier and one of them waits in the limiter.
C33_Witness ==
    /\ activeCount > options.concurrency
    /\ runningCount = options.concurrency
    /\ \E i \in 1..Len(tasks) : tasks[i].st = "queued"
    /\ pending(queue) = 0

\* The retry items that wait in the frontier.
RetryItems(q) == {k \in 1..Len(Frontier(q)) : Frontier(q)[k].attempt > 0}

\* C34: once the cancellation flag is set, no step enqueues a retry item or
\* adds to retryAttempts.
C34_NoRetryAfterCancel ==
    [][cancelled => (/\ stats'.retryAttempts = stats.retryAttempts
                     /\ Cardinality(RetryItems(queue')) <= Cardinality(RetryItems(queue)))]_vars

\* The tasks that have not emitted their PageResult yet.
Unfinished(ts) == {i \in 1..Len(ts) : ts[i].st \in {"queued", "running"}}

\* C35: once the cancellation flag is set no fetch is started: a task that
\* waits in the limiter for a slot stays there.
C35_NoFetchAfterCancel ==
    [][cancelled => \A i \in 1..Len(tasks) :
                        tasks[i].st = "queued" => tasks'[i].st = "queued"]_vars

\* C35, as the code has it: once the cancellation flag is set no item is
\* admitted, but every item admitted before is still fetched, also one that
\* waits in the limiter for a slot.  Every PageResult emitted after the
\* cancellation is that of a task admitted before it, one per task, and in
\* the end every admitted task has emitted its PageResult.
C35_AdmittedStillFetched ==
    /\ [][cancelled => (/\ Len(tasks') = Len(tasks)
                         /\ Len(pages') + Cardinality(Unfinished(tasks'))
                                = Len(pages) + Cardinality(Unfinished(tasks)))]_vars
    /\ [](cancelled => <>(/\ Unfinished(tasks) = {}
                           /\ Len(pages) = Len(tasks)))

\* The flag is set while every slot of the limiter is taken and an admitted
\* item waits for a slot, so more than the concurrency are still to emit.
C35_Witness ==
    /\ cancelled
    /\ pc = "running"
    /\ runningCount = options.concurrency
    /\ \E i \in 1..Len(tasks) : tasks[i].st = "queued"
    /\ Cardinality(Unfinished(tasks)) > options.concurrency

\* item is the retry of a task admitted before position n: that task failed,
\* and item has its URL and depth and the next attempt number.
RetryOfFailed(item, n) ==
    \E j \in 1..n :
        /\ tasks[j].st \in {"settled", "done"}
        /\ ~tasks[j].outcome.ok
        /\ tasks[j].item.url = item.url
        /\ tasks[j].item.depth = item.depth
        /\ tasks[j].item.attempt + 1 = item.attempt

\* C36: every retry item, waiting in the frontier or admitted, has the URL
\* and the depth of the failed item it replaces and the next attempt number,
\* also when the failed response came from a redirect target.
C36_RetryKeepsUrl ==
    /\ \A i \in 1..Len(tasks) :
           tasks[i].item.attempt > 0 => RetryOfFailed(tasks[i].item, i - 1)
    /\ \A k \in 1..Len(Frontier(queue)) :
           Frontier(queue)[k].attempt > 0 => RetryOfFailed(Frontier(queue)[k], Len(tasks))

\* The counters and maps that recordPageMetrics writes, and the other ones.
PageCounters(st) ==
    <<st.pagesVisited, st.pagesSucceeded, st.pagesFailed, st.maxDepth,
      st.totalLinksExtracted, st.statusCounts, st.failureReasons>>

OtherCounters(st) ==
    <<st.actualMaxConcurrency, st.peakQueueSize, st.duplicatesFiltered,
      st.retryAttempts, st.retrySuccesses, st.retryFailures>>

\* The step emits a PageResult, and the counters that recordPageMetrics
\* writes have changed by the metrics of that one PageResult.
PageStep == Len(pages') = Len(pages) + 1

OnePageCounted ==
    /\ stats'.pagesVisited = stats.pagesVisited + 1
    /\ stats'.maxDepth = Max(stats.maxDepth, pages'[Len(pages')].depth)
    /\ stats'.totalLinksExtracted
           = stats.totalLinksExtracted + Len(pages'[Len(pages')].links)
    /\ stats'.pagesSucceeded
           = stats.pagesSucceeded + (IF pages'[Len(pages')].error = "" THEN 1 ELSE 0)
    /\ stats'.pagesFailed
           = stats.pagesFailed + (IF pages'[Len(pages')].error = "" THEN 0 ELSE 1)
    /\ stats'.failureReasons
           = (IF pages'[Len(pages')].error = ""
              THEN stats.failureReasons
              ELSE Bump(stats.failureReasons, pages'[Len(pages')].error))
    /\ stats'.statusCounts
           = (IF pages'[Len(pages')].status = 0
              THEN stats.statusCounts
              ELSE Bump(stats.statusCounts, pages'[Len(pages')].status))

\* C37: recordPageMetrics is the only operation that changes CrawlStats.  A
\* step that emits a PageResult changes the statistics by the metrics of that
\* PageResult and by nothing else, and every other step leaves them as they
\* are.
C37_OnlyRecordPageMetrics ==
    [][IF PageStep
       THEN OnePageCounted /\ OtherCounters(stats') = OtherCounters(stats)
       ELSE stats' = stats]_vars

\* C37, as the code has it: recordPageMetrics is the only operation that
\* changes pagesVisited, pagesSucceeded, pagesFailed, maxDepth,
\* totalLinksExtracted, statusCounts and failureReasons.  The other counters
\* are written elsewhere: actualMaxConcurrency when a task starts, and
\* peakQueueSize, duplicatesFiltered, retryAttempts, retrySuccesses and
\* retryFailures while handleItem handles the page, never downwards.
C37_PageCountersOnlyByMetrics ==
    [][/\ (IF PageStep
            THEN OnePageCounted /\ stats'.actualMaxConcurrency = stats.actualMaxConcurrency
            ELSE (/\ PageCounters(stats') = PageCounters(stats)
                  /\ stats' = [stats EXCEPT !.actualMaxConcurrency =
                                                stats'.actualMaxConcurrency]))
       /\ \A k \in 1..Len(OtherCounters(stats)) :
              OtherCounters(stats')[k] >= OtherCounters(stats)[k]]_vars

\* Counters have been written outside recordPageMetrics: by the start of a
\* second concurrent task, by a filtered duplicate, by a scheduled retry and
\* by its success.
C37_Witness ==
    /\ stats.actualMaxConcurrency = 2
    /\ stats.duplicatesFiltered > 0
    /\ stats.retryAttempts > 0
    /\ stats.retrySuccesses > 0
    /\ stats.peakQueueSize > 1
    /\ stats.pagesFailed > 0

\* The FailureEvents of a log that a retry has resolved.
ResolvedEvents(log) == {k \in 1..Len(log) : log[k].resolvedOnRetry}

\* C38: at crawl end the number of FailureEvents with resolvedOnRetry = true
\* equals retrySuccesses, in the engine and in the summary.
C38_ResolvedEqualsRetrySuccesses ==
    pc = "done" =>
        /\ Cardinality(ResolvedEvents(failures.log)) = stats.retrySuccesses
        /\ Cardinality(ResolvedEvents(summaries[1].failureLog))
               = summaries[1].retrySuccesses

\* The positions of the PageResults with an error, in emission order, and
\* those whose error is the link-extraction failure.
RECURSIVE FailedPages(_)
FailedPages(n) ==
    IF n = 0
    THEN <<>>
    ELSE IF pages[n].error # ""
         THEN Append(FailedPages(n - 1), n)
         ELSE FailedPages(n - 1)

ParseFailures == {k \in 1..Len(pages) : pages[k].error = ParseFailureMessage}

\* C39: in every state the failure log is as long as pagesFailed, the k-th
\* FailureEvent is that of the k-th failed PageResult, and pagesFailed =
\* retryAttempts + retryFailures + the number of link-extraction failures.
C39_FailureAccounting ==
    /\ Len(failures.log) = stats.pagesFailed
    /\ Len(FailedPages(Len(pages))) = Len(failures.log)
    /\ \A k \in 1..Len(failures.log) :
           /\ failures.log[k].url = pages[FailedPages(Len(pages))[k]].url
           /\ failures.log[k].reason = pages[FailedPages(Len(pages))[k]].error
           /\ failures.log[k].depth = pages[FailedPages(Len(pages))[k]].depth
    /\ stats.pagesFailed
           = stats.retryAttempts + stats.retryFailures + Cardinality(ParseFailures)

\* Two failed fetches were retried, one of them after an error status, and
\* the links of a page could not be extracted: three failed PageResults.
C39_Witness ==
    /\ stats.retryAttempts = 2
    /\ Cardinality(ParseFailures) = 1
    /\ stats.pagesFailed = 3
    /\ Len(failures.log) = 3
    /\ \E k \in 1..Len(pages) : pages[k].status = 500

\* The URLs that n in-host links or fewer lead to from the seed, and the
\* length of the shortest in-host link path from the seed to url.
RECURSIVE Within(_)
Within(n) ==
    IF n = 0
    THEN {options.normalizedStart}
    ELSE Within(n - 1) \cup UNION {SameHost(v) : v \in Within(n - 1)}

RECURSIVE DistFrom(_, _)
DistFrom(url, n) == IF url \in Within(n) THEN n ELSE DistFrom(url, n + 1)

Reachable == Within(Cardinality(DOMAIN world.site))

\* No fetch has failed or was redirected: every fetchPageWithRetry call that
\* has returned made one request, answered with an ok status by the URL of
\* the item.
NoFetchFailureOrRedirect ==
    \A i \in 1..Len(tasks) :
        tasks[i].st \in {"settled", "done"} =>
            /\ tasks[i].outcome.ok
            /\ tasks[i].outcome.requests = 1
            /\ tasks[i].outcome.url = tasks[i].item.url

\* C40: with concurrency 1 and no fetch failure or redirect, items are
\* dequeued in non-decreasing depth order and the depth of every PageResult
\* is the length of the shortest in-host link path from the seed to its page.
C40_DepthIsDistanceWithoutFetchFailure ==
    (options.concurrency = 1 /\ NoFetchFailureOrRedirect) =>
        /\ \A i \in 1..(Len(tasks) - 1) : tasks[i].item.depth <= tasks[i + 1].item.depth
        /\ \A k \in 1..Len(pages) :
               /\ pages[k].url \in Reachable
               /\ pages[k].depth = DistFrom(pages[k].url, 0)

\* C40, as the code has it: with concurrency 1, when every fetch is answered
\* by the site's own HTML page and its links are extracted, items are
\* dequeued in non-decreasing depth order and the depth of every PageResult
\* is the length of the shortest in-host link path from the seed to its page.
C40_DepthIsDistance ==
    (options.concurrency = 1 /\ faults = 0) =>
        /\ \A i \in 1..(Len(tasks) - 1) : tasks[i].item.depth <= tasks[i + 1].item.depth
        /\ \A k \in 1..Len(pages) :
               /\ pages[k].url \in Reachable
               /\ pages[k].depth = DistFrom(pages[k].url, 0)

\* Such a crawl has ended with the six pages of the site; /w, which /y links
\* to and /z links to as well, was emitted with depth 2 and /z before it with
\* depth 2.
C40_Witness ==
    /\ pc = "done"
    /\ options.concurrency = 1
    /\ faults = 0
    /\ Len(pages) = 6
    /\ \E k, l \in 1..Len(pages) :
           /\ k < l
           /\ pages[k].url = Http("a", PathZ)
           /\ pages[k].depth = 2
           /\ pages[l].url = Http("a", PathW)
           /\ pages[l].depth = 2

====
